---- MODULE Spec2Model ----
(***************************************************************************)
(* steadykey: the IdempotencyManager (register / lookup / updateTtl /      *)
(* clear) over the InMemoryIdempotencyStore, with canonicalization and     *)
(* record serialization, as a state machine.                               *)
(*                                                                         *)
(* JavaScript values are tagged records: [t |-> "undefined"],              *)
(* [t |-> "null"], [t |-> "number", v, f] (v + f/10), [t |-> "string", v], *)
(* [t |-> "boolean", v], [t |-> "array", items], [t |-> "object", members] *)
(* where members is the sequence of <<key, value>> pairs in insertion      *)
(* order, and [t |-> "function"] for a value of an unsupported type.       *)
(***************************************************************************)
EXTENDS Integers, Sequences, FiniteSets, TLC

VARIABLES
    manager,     \* the IdempotencyManager's private readonly fields
    store,       \* InMemoryIdempotencyStore.store : Map<string, Entry>
    wallClock,   \* Date.now() in ms: nowBase() of the store, and new Date() of register
    timeOffset,  \* InMemoryIdempotencyStore.timeOffset
    pc,          \* per client: where its manager call is suspended (an await)
    call,        \* per client: the locals of the suspended call
    last,        \* the step just taken: the call, what it returned or threw, and
                 \* the Map before it (ghost)
    history,     \* per storage key: how the key got into its present state (ghost)
    outcome      \* per client: what its call of the race returned (ghost)

vars == <<manager, store, wallClock, timeOffset, pc, call, last, history, outcome>>

-----------------------------------------------------------------------------
(* Bounds of the model *)

NumClients == 2      \* concurrent callers of the manager
MaxTicks == 1        \* seconds of real time that pass
MaxAdvances == 1     \* half seconds the store clock is advanced by advanceTime

Clients == 1..NumClients

(* Program constants *)

MsPerSecond == 1000
DEFAULT_PREFIX == "idempotency"
DEFAULT_HASH_ALGORITHM == "sha256"
BIGINT_PREFIX == "bigint:"
BUFFER_PREFIX == "buffer:"
MAP_PREFIX == "map:"
SET_PREFIX == "set:"

-----------------------------------------------------------------------------
(* JavaScript values *)

Undefined == [t |-> "undefined"]
Null == [t |-> "null"]
NumF(n, tenths) == [t |-> "number", v |-> n, f |-> tenths]
Num(n) == NumF(n, 0)
Str(s) == [t |-> "string", v |-> s]
Bool(b) == [t |-> "boolean", v |-> b]
Arr(items) == [t |-> "array", items |-> items]
Obj(members) == [t |-> "object", members |-> members]
Func == [t |-> "function"]
\* a Map: its entries <<key, value>> in insertion order, the keys being values
MapV(entries) == [t |-> "map", entries |-> entries]

\* a Set: its members in insertion order
SetV(members) == [t |-> "set", members |-> members]
BigIntV(n) == [t |-> "bigint", v |-> n]
\* new Date(ms)
DateV(ms) == [t |-> "date", ms |-> ms]
\* a Buffer of these bytes
BufferV(bytes) == [t |-> "buffer", bytes |-> bytes]
Symbol == [t |-> "symbol"]
\* an object that is none of Date, Buffer, array, Map, Set or object literal (a
\* RegExp, a Promise, an instance of a class): members are its own enumerable
\* properties
Host(class, members) == [t |-> "host", class |-> class, members |-> members]

\* typeof value
TypeOf(value) ==
    CASE value.t \in {"undefined", "string", "number", "boolean", "bigint", "symbol",
                      "function"} -> value.t
      [] OTHER -> "object"

Thrown(kind, message) == [t |-> "throw", error |-> kind, message |-> message]
IsThrown(x) == x.t = "throw"

NumberIsInteger(x) == x.t = "number" /\ x.f = 0

NumberToString(x) ==
    IF x.f = 0 THEN ToString(x.v) ELSE ToString(x.v) \o "." \o ToString(x.f)

\* String(x) of a primitive
StringOf(x) ==
    CASE x.t = "string" -> x.v
      [] x.t = "number" -> NumberToString(x)
      [] x.t = "boolean" -> IF x.v THEN "true" ELSE "false"
      [] x.t = "null" -> "null"
      [] OTHER -> "undefined"

\* a ?? b
Coalesce(a, b) == IF a = Undefined \/ a = Null THEN b ELSE a

\* obj[name]: the value of the member called name, undefined when there is none
Field(obj, name) ==
    LET hits == {i \in 1..Len(obj.members) : obj.members[i][1] = name}
    IN  IF hits = {} THEN Undefined
        ELSE obj.members[CHOOSE i \in hits : \A j \in hits : i <= j][2]

\* { ...obj, name: value }
SpreadWith(obj, name, value) ==
    LET hits == {i \in 1..Len(obj.members) : obj.members[i][1] = name}
    IN  IF hits = {} THEN Obj(Append(obj.members, <<name, value>>))
        ELSE Obj([i \in 1..Len(obj.members) |->
                    IF i \in hits THEN <<name, value>> ELSE obj.members[i]])

-----------------------------------------------------------------------------
(* utils.ts: canonicalize *)

\* String.prototype.localeCompare on the keys the payloads use: the rank of a
\* key in the locale's collation (1 < a < A < b < B < e-acute).  The two
\* spellings of e-acute, the one code point U+00E9 and e followed by the
\* combining accent U+0301, are different strings that are canonically
\* equivalent, and localeCompare returns 0 for canonically equivalent strings.
\* The inputs use no other key.
LocaleRank(s) ==
    CASE s = "1" -> 0
      [] s = "a" -> 1
      [] s = "A" -> 2
      [] s = "b" -> 3
      [] s = "B" -> 4
      [] s = "\\u00e9" -> 5
      [] s = "e\\u0301" -> 5
      [] OTHER -> 6

localeCompare(x, y) ==
    IF LocaleRank(x) < LocaleRank(y) THEN -1
    ELSE IF LocaleRank(x) > LocaleRank(y) THEN 1 ELSE 0

\* Array.prototype.sort (stable) of <<key, value>> entries by
\* ([keyA], [keyB]) => keyA.localeCompare(keyB)
insertEntry(sorted, e) ==
    LET after == {i \in 1..Len(sorted) : localeCompare(sorted[i][1], e[1]) > 0}
    IN  IF after = {} THEN Append(sorted, e)
        ELSE LET at == CHOOSE i \in after : \A j \in after : i <= j
             IN  SubSeq(sorted, 1, at - 1) \o <<e>> \o SubSeq(sorted, at, Len(sorted))

RECURSIVE sortEntries(_)
sortEntries(entries) ==
    IF entries = <<>> THEN <<>>
    ELSE insertEntry(sortEntries(SubSeq(entries, 1, Len(entries) - 1)),
                     entries[Len(entries)])

\* The UTF-16 code units of the strings that get compared by code unit: the
\* keys the payloads use, and the JSON texts of the members of their Sets.
CodeUnits(s) ==
    CASE s = "1" -> <<49>>
      [] s = "2" -> <<50>>
      [] s = "A" -> <<65>>
      [] s = "B" -> <<66>>
      [] s = "a" -> <<97>>
      [] s = "b" -> <<98>>
      [] s = "\"a\"" -> <<34, 97, 34>>
      [] s = "\"B\"" -> <<34, 66, 34>>
      [] s = "\"bigint:1\"" -> <<34, 98, 105, 103, 105, 110, 116, 58, 49, 34>>

\* x < y for strings as the default comparison of Array.prototype.sort has
\* it: by code units, a proper prefix first
RECURSIVE UnitsLess(_, _)
UnitsLess(x, y) ==
    IF y = <<>> THEN FALSE
    ELSE IF x = <<>> THEN TRUE
    ELSE IF x[1] # y[1] THEN x[1] < y[1]
    ELSE UnitsLess(Tail(x), Tail(y))

CodeUnitLess(s, u) == UnitsLess(CodeUnits(s), CodeUnits(u))

\* strings.sort() that leaves the array as it is
sortStringsKeepsOrder(strings) == strings

\* strings.sort(): Array.prototype.sort with no comparator (stable)
RECURSIVE sortStrings(_)
sortStrings(strings) ==
    IF strings = <<>> THEN <<>>
    ELSE LET sorted == sortStrings(SubSeq(strings, 1, Len(strings) - 1))
             e == strings[Len(strings)]
             after == {i \in 1..Len(sorted) : CodeUnitLess(e, sorted[i])}
         IN  IF after = {} THEN Append(sorted, e)
             ELSE LET at == CHOOSE i \in after : \A j \in after : i <= j
                  IN  SubSeq(sorted, 1, at - 1) \o <<e>> \o SubSeq(sorted, at, Len(sorted))

\* buffer.toString("base64")
Base64Alphabet ==
    <<"A", "B", "C", "D", "E", "F", "G", "H", "I", "J", "K", "L", "M", "N", "O", "P",
      "Q", "R", "S", "T", "U", "V", "W", "X", "Y", "Z", "a", "b", "c", "d", "e", "f",
      "g", "h", "i", "j", "k", "l", "m", "n", "o", "p", "q", "r", "s", "t", "u", "v",
      "w", "x", "y", "z", "0", "1", "2", "3", "4", "5", "6", "7", "8", "9", "+", "/">>

Base64Digit(n) == Base64Alphabet[n + 1]

RECURSIVE toBase64(_)
toBase64(bytes) ==
    IF bytes = <<>> THEN ""
    ELSE IF Len(bytes) = 1
    THEN Base64Digit(bytes[1] \div 4) \o Base64Digit((bytes[1] % 4) * 16) \o "=="
    ELSE IF Len(bytes) = 2
    THEN Base64Digit(bytes[1] \div 4)
             \o Base64Digit((bytes[1] % 4) * 16 + bytes[2] \div 16)
             \o Base64Digit((bytes[2] % 16) * 4) \o "="
    ELSE Base64Digit(bytes[1] \div 4)
             \o Base64Digit((bytes[1] % 4) * 16 + bytes[2] \div 16)
             \o Base64Digit((bytes[2] % 16) * 4 + bytes[3] \div 64)
             \o Base64Digit(bytes[3] % 64)
             \o toBase64(SubSeq(bytes, 4, Len(bytes)))

\* new Date(ms).toISOString(): one string per instant
toISOString(ms) == "T+" \o ToString(ms) \o "ms"

\* Object.entries(value) with no filter: the undefined entries stay
keptEntriesAll(members) == members

\* Object.entries(value).filter(([, entryValue]) => entryValue !== undefined)
keptEntries(members) ==
    SelectSeq(members, LAMBDA e : e[2] # Undefined)

RECURSIVE normalize(_)
RECURSIVE normalizeItems(_)
RECURSIVE normalizeEntries(_)
RECURSIVE JsonWith(_, _)

\* JSON.stringify(value); the text is defined below
JsonStringify(value) == JsonWith(value, "\"")

\* the same text with each of its quotes escaped, as it stands inside a JSON string
JsonStringifyEscaped(value) == JsonWith(value, "\\\"")

\* a string that holds quotes: v is the string, quoted what JSON.stringify puts
\* between the quotes for it
StrQuoted(v, quoted) == [t |-> "string", v |-> v, quoted |-> quoted]

normalizeItems(items) ==
    IF items = <<>> THEN [t |-> "ok", items |-> <<>>]
    ELSE LET head == normalize(items[1])
             rest == normalizeItems(Tail(items))
         IN  IF IsThrown(head) THEN head
             ELSE IF IsThrown(rest) THEN rest
             ELSE [t |-> "ok", items |-> <<head>> \o rest.items]

normalizeEntries(entries) ==
    IF entries = <<>> THEN [t |-> "ok", items |-> <<>>]
    ELSE LET head == normalize(entries[1][2])
             rest == normalizeEntries(Tail(entries))
         IN  IF IsThrown(head) THEN head
             ELSE IF IsThrown(rest) THEN rest
             ELSE [t |-> "ok", items |-> <<(<<entries[1][1], head>>)>> \o rest.items]

normalize(value) ==
    CASE value.t \in {"null", "string", "number", "boolean"} -> value
      [] value.t = "bigint" -> Str(BIGINT_PREFIX \o ToString(value.v))
      [] value.t = "date" -> Str(toISOString(value.ms))
      [] value.t = "buffer" -> Str(BUFFER_PREFIX \o toBase64(value.bytes))
      [] value.t = "array" ->
            LET items == normalizeItems(value.items)
            IN  IF IsThrown(items) THEN items ELSE Arr(items.items)
      [] value.t = "map" ->
            LET keyed == [i \in 1..Len(value.entries) |->
                             <<StringOf(value.entries[i][1]), value.entries[i][2]>>]
                entries == normalizeEntries(keyed)
                sorted == sortEntries(entries.items)
            IN  IF IsThrown(entries) THEN entries
                ELSE Arr([i \in 1..Len(sorted) |->
                            StrQuoted(MAP_PREFIX \o sorted[i][1] \o ":"
                                          \o JsonStringify(sorted[i][2]),
                                      MAP_PREFIX \o sorted[i][1] \o ":"
                                          \o JsonStringifyEscaped(sorted[i][2]))])
      [] value.t = "set" ->
            LET normalizedValues == normalizeItems(value.members)
            IN  IF IsThrown(normalizedValues) THEN normalizedValues
                ELSE LET texts == [i \in 1..Len(normalizedValues.items) |->
                                      JsonStringify(normalizedValues.items[i])]
                         sorted == sortStrings(texts)
                         \* the member that a text is the JSON text of
                         of(text) == CHOOSE m \in {normalizedValues.items[i] :
                                                     i \in 1..Len(normalizedValues.items)} :
                                         JsonStringify(m) = text
                     IN  Arr([i \in 1..Len(sorted) |->
                                 StrQuoted(SET_PREFIX \o sorted[i],
                                           SET_PREFIX \o JsonStringifyEscaped(of(sorted[i])))])
      \* typeof value === "object", for what none of the branches above took
      [] value.t \in {"object", "host"} ->
            LET kept == keptEntries(value.members)
                entries == normalizeEntries(sortEntries(kept))
            IN  IF IsThrown(entries) THEN entries ELSE Obj(entries.items)
      [] OTHER ->
            Thrown("IdempotencySerializationError",
                   "Unsupported value type: " \o TypeOf(value))

\* JSON.stringify of a canonical value, as text, with quote for the quote
\* character: "\"" for the text itself, "\\\"" for the text as it is escaped inside
\* a JSON string.  The strings of the inputs hold no character that JSON
\* escapes; the strings that the Map and Set branches build hold quotes, and no
\* input has one of these inside another Map or Set.
RECURSIVE JsonJoinItems(_, _)
RECURSIVE JsonJoinMembers(_, _)

JsonJoinItems(items, quote) ==
    IF items = <<>> THEN ""
    ELSE IF Len(items) = 1 THEN JsonWith(items[1], quote)
    ELSE JsonWith(items[1], quote) \o "," \o JsonJoinItems(Tail(items), quote)

JsonJoinMembers(members, quote) ==
    IF members = <<>> THEN ""
    ELSE LET one == quote \o members[1][1] \o quote \o ":" \o JsonWith(members[1][2], quote)
         IN  IF Len(members) = 1 THEN one
             ELSE one \o "," \o JsonJoinMembers(Tail(members), quote)

JsonWith(value, quote) ==
    CASE value.t = "null" -> "null"
      [] value.t = "string" /\ "quoted" \notin DOMAIN value -> quote \o value.v \o quote
      [] value.t = "string" /\ "quoted" \in DOMAIN value /\ quote = "\"" ->
            quote \o value.quoted \o quote
      [] value.t = "number" -> NumberToString(value)
      [] value.t = "boolean" -> IF value.v THEN "true" ELSE "false"
      [] value.t = "array" -> "[" \o JsonJoinItems(value.items, quote) \o "]"
      [] value.t = "object" ->
            "{" \o JsonJoinMembers(
                      SelectSeq(value.members, LAMBDA e : e[2] # Undefined), quote) \o "}"

\* canonicalize(value): the canonical string, or the error thrown
canonicalize(value) ==
    LET normalized == normalize(value)
    IN  IF IsThrown(normalized)
        THEN Thrown("IdempotencySerializationError", normalized.message)
        ELSE Str(JsonStringify(normalized))

\* hashCanonicalValue: a hex digest; distinct inputs give distinct digests
hashCanonicalValue(canonicalValue, algorithm) ==
    algorithm \o "(" \o canonicalValue \o ")"

-----------------------------------------------------------------------------
(* utils.ts: serializeRecord / deserializeRecord *)

\* What JSON.stringify keeps of a value: undefined and functions are dropped
\* from objects and become null in arrays.
RECURSIVE ToJson(_)
ToJson(value) ==
    CASE value.t = "array" ->
            Arr([i \in 1..Len(value.items) |->
                    IF value.items[i].t \in {"undefined", "function"} THEN Null
                    ELSE ToJson(value.items[i])])
      [] value.t = "object" ->
            LET kept == SelectSeq(value.members,
                                  LAMBDA e : e[2].t \notin {"undefined", "function"})
            IN  Obj([i \in 1..Len(kept) |-> <<kept[i][1], ToJson(kept[i][2])>>])
      [] OTHER -> value

\* A string holding JSON text: the text is kept as the value it parses to.
JsonText(value) == [t |-> "string", json |-> ToJson(value)]

\* serializeRecord that writes null for a field that is undefined
serializeRecordNullForUndefined(record) ==
    JsonText(Obj([i \in 1..Len(record.members) |->
                    IF record.members[i][2] = Undefined
                    THEN <<record.members[i][1], Null>>
                    ELSE record.members[i]]))

\* serializeRecord({ record }) = JSON.stringify(record)
serializeRecord(record) ==
    JsonText(record)

\* deserializeRecord(value): the parsed record, or the error thrown
deserializeRecord(value) ==
    IF "json" \notin DOMAIN value
    THEN Thrown("IdempotencySerializationError", "Unexpected token")
    ELSE LET parsed == value.json
         IN  IF parsed.t # "object" \/ Field(parsed, "id").t # "string"
             THEN Thrown("IdempotencyError", "Stored idempotency record has invalid shape")
             ELSE parsed

-----------------------------------------------------------------------------
(* idempotency-manager.ts: construction and the pure methods *)

isFiniteTtl(ttlSeconds) ==
    ttlSeconds.t = "number" /\ (ttlSeconds.v > 0 \/ (ttlSeconds.v = 0 /\ ttlSeconds.f > 0))

\* keyPrefix.replace(/:+$/, "") on a prefix given as its characters
RECURSIVE stripTrailingColons(_)
stripTrailingColons(chars) ==
    IF chars # <<>> /\ chars[Len(chars)] = ":"
    THEN stripTrailingColons(SubSeq(chars, 1, Len(chars) - 1))
    ELSE chars

RECURSIVE joinChars(_)
joinChars(chars) == IF chars = <<>> THEN "" ELSE chars[1] \o joinChars(Tail(chars))

\* new IdempotencyManager(store, options): the fields, or the error thrown
IdempotencyManager(storeGiven, options) ==
    IF ~storeGiven
    THEN Thrown("IdempotencyError", "A storage adapter instance is required")
    ELSE IF options.defaultTtlSeconds \notin {Undefined, Null}
            /\ (~NumberIsInteger(options.defaultTtlSeconds)
                \/ options.defaultTtlSeconds.v <= 0)
    THEN Thrown("IdempotencyError",
                "defaultTtlSeconds must be a positive integer when provided")
    ELSE [t |-> "manager",
          keyPrefix |->
              IF options.keyPrefix = Undefined THEN DEFAULT_PREFIX
              ELSE joinChars(stripTrailingColons(options.keyPrefix.chars)),
          defaultTtlSeconds |->
              IF options.defaultTtlSeconds \in {Undefined, Null} THEN Null
              ELSE options.defaultTtlSeconds,
          hashAlgorithm |-> IF options.hashAlgorithm = Undefined
                            THEN DEFAULT_HASH_ALGORITHM
                            ELSE options.hashAlgorithm.v,
          storeCanonicalPayload |-> Coalesce(options.storeCanonicalPayload, Bool(FALSE))]

buildKey(m, id) == m.keyPrefix \o ":" \o id

buildRedisKey(m, id) == buildKey(m, id)

\* resolveTtl as ttlSeconds ?? defaultTtlSeconds: null falls back to the default
resolveTtlNullAsDefault(m, ttlSeconds) ==
    IF ttlSeconds = Undefined \/ ttlSeconds = Null THEN m.defaultTtlSeconds
    ELSE IF ~NumberIsInteger(ttlSeconds) \/ ttlSeconds.v < 0
    THEN Thrown("IdempotencyError", "TTL must be a positive integer, null, or undefined")
    ELSE IF ttlSeconds = Num(0) THEN Null
    ELSE ttlSeconds

\* resolveTtl that takes every number below 1 and every fraction for "no expiry"
resolveTtlLenient(m, ttlSeconds) ==
    IF ttlSeconds = Undefined THEN m.defaultTtlSeconds
    ELSE IF ttlSeconds = Null THEN Null
    ELSE IF ~NumberIsInteger(ttlSeconds) \/ ttlSeconds.v <= 0 THEN Null
    ELSE ttlSeconds

resolveTtl(m, ttlSeconds) ==
    IF ttlSeconds = Undefined THEN m.defaultTtlSeconds
    ELSE IF ttlSeconds = Null THEN Null
    ELSE IF ~NumberIsInteger(ttlSeconds) \/ ttlSeconds.v < 0
    THEN Thrown("IdempotencyError", "TTL must be a positive integer, null, or undefined")
    ELSE IF ttlSeconds = Num(0) THEN Null
    ELSE ttlSeconds

-----------------------------------------------------------------------------
(* stores/in-memory-store.ts, as functions of the Map and the current time *)

MapSet(m, k, v) == [x \in DOMAIN m \cup {k} |-> IF x = k THEN v ELSE m[x]]
MapDelete(m, k) == [x \in DOMAIN m \ {k} |-> m[x]]

currentTime == wallClock + timeOffset

\* toExpiryEpoch that adds the TTL to the clock as it is, in seconds
toExpiryEpochInSeconds(ttlSeconds, nowMs) ==
    IF ttlSeconds.t = "number" /\ isFiniteTtl(ttlSeconds)
    THEN Num(nowMs + ttlSeconds.v)
    ELSE Null

toExpiryEpoch(ttlSeconds, nowMs) ==
    IF ttlSeconds.t = "number" /\ isFiniteTtl(ttlSeconds)
    THEN Num(nowMs + ttlSeconds.v * MsPerSecond + ttlSeconds.f * (MsPerSecond \div 10))
    ELSE Null

\* evictIfExpired without the expiry test: the entry is dropped whenever it is looked at
evictIfExpiredAlways(st, key, nowMs) ==
    MapDelete(st, key)

\* evictIfExpired with < where the store has <=: an entry survives its last millisecond
evictIfExpiredStrict(st, key, nowMs) ==
    IF key \notin DOMAIN st THEN st
    ELSE IF st[key].expiresAt # Null /\ st[key].expiresAt.v < nowMs
    THEN MapDelete(st, key)
    ELSE st

evictIfExpired(st, key, nowMs) ==
    IF key \notin DOMAIN st THEN st
    ELSE IF st[key].expiresAt # Null /\ st[key].expiresAt.v <= nowMs
    THEN MapDelete(st, key)
    ELSE st

\* setIfAbsent as a plain set: the entry is written whether or not the key exists
setIfAbsentOverwriting(st, key, value, ttlSeconds, nowMs) ==
    [store |-> MapSet(st, key, [value |-> value,
                                expiresAt |-> toExpiryEpoch(ttlSeconds, nowMs)]),
     result |-> TRUE]

\* setIfAbsent that tests the Map without evicting an expired entry first
setIfAbsentWithoutEviction(st, key, value, ttlSeconds, nowMs) ==
    IF key \in DOMAIN st
    THEN [store |-> st, result |-> FALSE]
    ELSE [store |-> MapSet(st, key, [value |-> value,
                                     expiresAt |-> toExpiryEpoch(ttlSeconds, nowMs)]),
          result |-> TRUE]

\* setIfAbsent that renews the expiry of the entry it finds
setIfAbsentRefreshing(st, key, value, ttlSeconds, nowMs) ==
    IF key \notin DOMAIN st
    THEN [store |-> MapSet(st, key, [value |-> value,
                                     expiresAt |-> toExpiryEpoch(ttlSeconds, nowMs)]),
          result |-> TRUE]
    ELSE [store |-> MapSet(st, key, [value |-> st[key].value,
                                     expiresAt |-> toExpiryEpoch(ttlSeconds, nowMs)]),
          result |-> FALSE]

\* get that does not evict: it returns entries that have expired
getWithoutEviction(st, key, nowMs) ==
    IF key \notin DOMAIN st
    THEN [store |-> st, result |-> Null]
    ELSE [store |-> st,
          result |-> [t |-> "storeValue",
                      value |-> st[key].value,
                      ttlSeconds |->
                          IF st[key].expiresAt = Null THEN Null
                          ELSE LET left == (st[key].expiresAt.v - nowMs) \div MsPerSecond
                               IN  Num(IF left > 0 THEN left ELSE 0)]]

\* update as an upsert: it writes the entry although the key does not exist
updateUpsert(st, key, value, ttlSeconds, nowMs) ==
    [store |-> MapSet(st, key, [value |-> value,
                                expiresAt |-> toExpiryEpoch(ttlSeconds, nowMs)]),
     result |-> Undefined]

\* each returns the Map afterwards and what the call returned (or threw)
\* update that writes the value and leaves the expiry of the entry as it was
updateKeepsExpiry(st, key, value, ttlSeconds, nowMs) ==
    LET s1 == evictIfExpired(st, key, nowMs)
    IN  IF key \notin DOMAIN s1
        THEN [store |-> s1,
              result |-> Thrown("Error", "Key " \o key \o " does not exist in InMemoryIdempotencyStore")]
        ELSE [store |-> MapSet(s1, key, [value |-> value,
                                         expiresAt |-> s1[key].expiresAt]),
              result |-> Undefined]

\* get that leaves an empty entry behind when it finds none
getInsertingOnMiss(st, key, nowMs) ==
    LET s1 == evictIfExpired(st, key, nowMs)
    IN  IF key \notin DOMAIN s1
        THEN [store |-> MapSet(s1, key, [value |-> Str(""), expiresAt |-> Null]),
              result |-> Null]
        ELSE [store |-> s1,
              result |-> [t |-> "storeValue",
                          value |-> s1[key].value,
                          ttlSeconds |->
                              IF s1[key].expiresAt = Null THEN Null
                              ELSE LET left == (s1[key].expiresAt.v - nowMs) \div MsPerSecond
                                   IN  Num(IF left > 0 THEN left ELSE 0)]]

\* update that renews the expiry and leaves the stored value as it was
updateKeepsValue(st, key, value, ttlSeconds, nowMs) ==
    LET s1 == evictIfExpired(st, key, nowMs)
    IN  IF key \notin DOMAIN s1
        THEN [store |-> s1,
              result |-> Thrown("Error", "Key " \o key \o " does not exist in InMemoryIdempotencyStore")]
        ELSE [store |-> MapSet(s1, key, [value |-> s1[key].value,
                                         expiresAt |-> toExpiryEpoch(ttlSeconds, nowMs)]),
              result |-> Undefined]

setIfAbsent(st, key, value, ttlSeconds, nowMs) ==
    LET s1 == evictIfExpired(st, key, nowMs)
    IN  IF key \in DOMAIN s1
        THEN [store |-> s1, result |-> FALSE]
        ELSE [store |-> MapSet(s1, key, [value |-> value,
                                         expiresAt |-> toExpiryEpoch(ttlSeconds, nowMs)]),
              result |-> TRUE]

get(st, key, nowMs) ==
    LET s1 == evictIfExpired(st, key, nowMs)
    IN  IF key \notin DOMAIN s1
        THEN [store |-> s1, result |-> Null]
        ELSE [store |-> s1,
              result |-> [t |-> "storeValue",
                          value |-> s1[key].value,
                          ttlSeconds |->
                              IF s1[key].expiresAt = Null THEN Null
                              ELSE LET left == (s1[key].expiresAt.v - nowMs) \div MsPerSecond
                                   IN  Num(IF left > 0 THEN left ELSE 0)]]

update(st, key, value, ttlSeconds, nowMs) ==
    LET s1 == evictIfExpired(st, key, nowMs)
    IN  IF key \notin DOMAIN s1
        THEN [store |-> s1,
              result |-> Thrown("Error", "Key " \o key \o " does not exist in InMemoryIdempotencyStore")]
        ELSE [store |-> MapSet(s1, key, [value |-> value,
                                         expiresAt |-> toExpiryEpoch(ttlSeconds, nowMs)]),
              result |-> Undefined]

\* delete that reports whether the key exists and leaves the entry in the Map
deleteReportOnly(st, key) ==
    [store |-> st, result |-> key \in DOMAIN st]

delete(st, key) ==
    [store |-> MapDelete(st, key), result |-> key \in DOMAIN st]

RECURSIVE purgeOver(_, _, _)
purgeOver(st, keys, nowMs) ==
    IF keys = {} THEN st
    ELSE LET k == CHOOSE x \in keys : TRUE
         IN  purgeOver(evictIfExpired(st, k, nowMs), keys \ {k}, nowMs)

purgeExpiredEntries(st, nowMs) == purgeOver(st, DOMAIN st, nowMs)

\* the record stored under key
StoredRecord(st, key) == deserializeRecord(st[key].value)

-----------------------------------------------------------------------------
(* The inputs the clients draw from *)

PayloadA == Obj(<< <<"a", Num(1)>>, <<"b", Str("x")>> >>)
PayloadB == Obj(<< <<"b", Str("x")>>, <<"a", Num(1)>> >>)
PayloadS == Str("simple-payload")
PayloadF == Obj(<< <<"a", Func>> >>)

\* one logical payload, in two key orders
Payloads == {PayloadA, PayloadB}

TtlInputs == {Undefined, Null}
MetadataInputs == {Undefined, Str("m1")}
StoreCanonicalInputs == {Undefined}

RegisterOptions ==
    [ttlSeconds : TtlInputs, metadata : MetadataInputs,
     storeCanonicalPayload : StoreCanonicalInputs]

\* the same, with storeCanonicalPayload overridden as well, and with metadata
\* that has arrays and nulls inside
MetadataNested == Obj(<< <<"tags", Arr(<<Str("x"), Null>>)>>, <<"n", Num(1)>> >>)

RegisterOptionsWide ==
    [ttlSeconds : TtlInputs, metadata : {Undefined, MetadataNested},
     storeCanonicalPayload : StoreCanonicalInputs \cup {Bool(FALSE)}]

\* every kind of ttlSeconds argument: absent, null, zero, a positive integer
\* other than the default, a negative integer, a non-integer (1.5)
TtlInputsWide == {Undefined, Null, Num(0), Num(2), Num(-1), NumF(1, 5)}

SoloOptions ==
    [ttlSeconds : TtlInputsWide, metadata : {Undefined},
     storeCanonicalPayload : StoreCanonicalInputs]

\* the options of the manager the tests build, with a short prefix
ManagerOptions ==
    [keyPrefix |-> [t |-> "string", chars |-> <<"t", ":", "i", ":">>],
     defaultTtlSeconds |-> Num(1),
     hashAlgorithm |-> Undefined,
     storeCanonicalPayload |-> Bool(TRUE)]

\* a manager built without defaultTtlSeconds
ManagerOptionsNoDefault ==
    [keyPrefix |-> [t |-> "string", chars |-> <<"t", ":", "i", ":">>],
     defaultTtlSeconds |-> Undefined,
     hashAlgorithm |-> Undefined,
     storeCanonicalPayload |-> Bool(TRUE)]

\* payloads that differ in the order of their keys, of their array elements or
\* of their Map entries
NestedA ==
    Obj(<< <<"a", Obj(<< <<"a", Num(1)>>, <<"b", Num(2)>> >>)>>,
           <<"b", Arr(<<Num(1), Num(2)>>)>> >>)
NestedB ==
    Obj(<< <<"b", Arr(<<Num(1), Num(2)>>)>>,
           <<"a", Obj(<< <<"b", Num(2)>>, <<"a", Num(1)>> >>)>> >>)
NestedC ==
    Obj(<< <<"a", Obj(<< <<"a", Num(1)>>, <<"b", Num(2)>> >>)>>,
           <<"b", Arr(<<Num(2), Num(1)>>)>> >>)
ArrayA == Arr(<<Num(1), Num(2)>>)
ArrayB == Arr(<<Num(2), Num(1)>>)
\* the two spellings of e-acute as the keys of one record
AccentA == Obj(<< <<"\\u00e9", Num(1)>>, <<"e\\u0301", Num(2)>> >>)
AccentB == Obj(<< <<"e\\u0301", Num(2)>>, <<"\\u00e9", Num(1)>> >>)
MapA == MapV(<< <<Str("a"), Num(1)>>, <<Str("b"), Num(2)>> >>)
MapB == MapV(<< <<Str("b"), Num(2)>>, <<Str("a"), Num(1)>> >>)
\* the number 1 and the string "1" as the keys of one Map
MapOneA == MapV(<< <<Num(1), Str("a")>>, <<Str("1"), Str("b")>> >>)
MapOneB == MapV(<< <<Str("1"), Str("b")>>, <<Num(1), Str("a")>> >>)

CanonPayloads ==
    {PayloadA, PayloadB, NestedA, NestedB, NestedC, ArrayA, ArrayB,
     AccentA, AccentB, MapA, MapB, MapOneA, MapOneB}

\* payloads of every kind that normalize tells apart
SetA == SetV(<<Str("a"), Str("B"), Num(1)>>)
SetB == SetV(<<Num(1), Str("B"), Str("a")>>)
SetOne == SetV(<<Num(1)>>)
SetOneText == Arr(<<Str("set:1")>>)
BigOne == BigIntV(1)
BigOneText == Str("bigint:1")
BufferOne == BufferV(<<1>>)
BufferOneText == Str("buffer:AQ==")
DateZero == DateV(0)
DateZeroText == Str(toISOString(0))
MapOne == MapV(<< <<Str("a"), Num(1)>> >>)
MapOneText == Arr(<<Str("map:a:1")>>)
\* a record with an entry that is undefined, the record without the entry,
\* and the record with the entry null
WithUndefined == Obj(<< <<"a", Num(1)>>, <<"b", Undefined>> >>)
Without == Obj(<< <<"a", Num(1)>> >>)
WithNull == Obj(<< <<"a", Num(1)>>, <<"b", Null>> >>)
\* an upper-case and a lower-case key
MixedCase == Obj(<< <<"B", Num(1)>>, <<"a", Num(2)>> >>)
MixedCaseMap == MapV(<< <<Str("B"), Num(1)>>, <<Str("a"), Num(2)>> >>)
\* values of no supported kind, alone and inside a supported one
HostRegExp == Host("RegExp", <<>>)
HostInstance == Host("Order", << <<"a", Num(1)>> >>)
InArray == Arr(<<Num(1), Func>>)
InArrayUndefined == Arr(<<Undefined>>)
InRecord == Obj(<< <<"a", Symbol>> >>)
InRecordHost == Obj(<< <<"a", HostRegExp>> >>)
InMap == MapV(<< <<Str("a"), Undefined>> >>)
InSet == SetV(<<Func>>)

KindPayloads ==
    {SetA, SetB, SetOne, SetOneText, BigOne, BigOneText, BufferOne, BufferOneText,
     DateZero, DateZeroText, MapOne, MapOneText, WithUndefined, Without, WithNull,
     MixedCase, MixedCaseMap, Undefined, Func, Symbol, HostRegExp, HostInstance,
     InArray, InArrayUndefined, InRecord, InRecordHost, InMap, InSet, PayloadS, ArrayA}

\* canonicalize is a pure function: its value on each payload, evaluated once
canonicalOf ==
    [p \in {PayloadA, PayloadB, PayloadS, PayloadF} \cup CanonPayloads \cup KindPayloads
        |-> canonicalize(p)]

generateId(m, payload) ==
    LET canonicalPayload == canonicalOf[payload]
    IN  IF IsThrown(canonicalPayload) THEN canonicalPayload
        ELSE hashCanonicalValue(canonicalPayload.v, m.hashAlgorithm)

Ids(m) == {generateId(m, p) : p \in Payloads}
KeysOf(m) == {buildKey(m, id) : id \in Ids(m) \cup {"missing"}}

\* Date.now() moves by whole seconds, advanceTime by half seconds
TickStepsMs == {1000}
AdvanceStepsMs == {500}

-----------------------------------------------------------------------------
(* State *)

EmptyMap == [k \in {} |-> Null]
NoCall == [op |-> "none", id |-> "", key |-> ""]
Suspended == [t |-> "suspended"]

\* The step just taken: client c ran phase 1 (the call, up to its first await)
\* or phase 2 (its resumption) of the call with these locals; value is what the
\* call returned or threw, or Suspended; issued are the store operations the
\* call has issued so far; before is the Map before the step.
Step(c, phase, locals, value, issued) ==
    [client |-> c, phase |-> phase, call |-> locals, value |-> value, issued |-> issued,
     before |-> store]
NoStep ==
    [client |-> 0, phase |-> 0, call |-> NoCall, value |-> Undefined, issued |-> <<>>,
     before |-> EmptyMap]

\* history of a key: inserted is the record built by the register call that
\* inserted the key last, origin the record built by the register call whose
\* record the stored value was rewritten from, at the store time of the insert,
\* updated whether store.update has written the key since, ttl the TTL that the
\* last write of the key (the insert or an update) gave the store.
Never == [state |-> "never"]
Creation(record) ==
    [createdAt |-> Field(record, "createdAt"), metadata |-> Field(record, "metadata"),
     canonicalPayload |-> Field(record, "canonicalPayload")]
Live(record, at) ==
    [state |-> "live", inserted |-> record, origin |-> Creation(record), at |-> at,
     updated |-> FALSE, ttl |-> Field(record, "ttlSeconds")]

\* keys that a store call removed because they had expired
Expire(h, before, after) ==
    [k \in DOMAIN h |->
        IF k \in DOMAIN before /\ k \notin DOMAIN after THEN [state |-> "expired"] ELSE h[k]]

Init ==
    /\ manager = IdempotencyManager(TRUE, ManagerOptions)
    /\ store = EmptyMap
    /\ wallClock = 0
    /\ timeOffset = 0
    /\ pc = [c \in Clients |-> "idle"]
    /\ call = [c \in Clients |-> NoCall]
    /\ last = NoStep
    /\ history = [k \in KeysOf(manager) |-> Never]
    /\ outcome = [c \in Clients |-> Undefined]

-----------------------------------------------------------------------------
(* IdempotencyManager.register: up to the await of store.setIfAbsent, which the *)
(* store runs at once, and the return when it inserted                          *)

Registration(id, key, stored, record) ==
    [t |-> "registration", id |-> id, key |-> key, stored |-> stored, record |-> record]

registerCanonical(c, options, canonicalPayload) ==
    /\ pc[c] = "idle"
    /\ LET id == hashCanonicalValue(canonicalPayload.v, manager.hashAlgorithm)
           key == buildKey(manager, id)
           ttlSeconds == resolveTtl(manager, options.ttlSeconds)
           storeCanonicalPayload ==
               Coalesce(options.storeCanonicalPayload, manager.storeCanonicalPayload)
           record ==
               Obj(<< <<"id", Str(id)>>,
                      <<"payloadHash", Str(id)>>,
                      <<"createdAt", Str(toISOString(wallClock))>>,
                      <<"metadata", options.metadata>>,
                      <<"canonicalPayload",
                        IF storeCanonicalPayload.v THEN canonicalPayload ELSE Undefined>>,
                      <<"ttlSeconds", ttlSeconds>> >>)
           serialized == serializeRecord(record)
           r == setIfAbsent(store, key, serialized, ttlSeconds, currentTime)
           locals == [op |-> "register", id |-> id, key |-> key, options |-> options,
                      record |-> record]
       IN  IF IsThrown(canonicalPayload)
           THEN /\ last' = Step(c, 1, [op |-> "register", id |-> "", key |-> "",
                                      options |-> options],
                                canonicalPayload, <<>>)
                /\ UNCHANGED <<store, pc, call, history>>
           ELSE IF IsThrown(ttlSeconds)
           THEN /\ last' = Step(c, 1, [op |-> "register", id |-> id, key |-> key,
                                      options |-> options],
                                ttlSeconds, <<>>)
                /\ UNCHANGED <<store, pc, call, history>>
           ELSE IF r.result
           THEN /\ store' = r.store
                /\ history' = [history EXCEPT ![key] = Live(record, currentTime)]
                /\ last' = Step(c, 1, locals, Registration(id, key, TRUE, record),
                                <<"setIfAbsent">>)
                /\ UNCHANGED <<pc, call>>
           ELSE /\ store' = r.store
                /\ history' = Expire(history, store, r.store)
                /\ pc' = [pc EXCEPT ![c] = "register_get"]
                /\ call' = [call EXCEPT ![c] = locals]
                /\ last' = Step(c, 1, locals, Suspended, <<"setIfAbsent">>)
    /\ UNCHANGED <<manager, wallClock, timeOffset>>

\* const canonicalPayload = canonicalize(payload), and the rest of register
register(c, payload, options) ==
    registerCanonical(c, options, canonicalOf[payload])

\* register that answers a duplicate with the record it built itself
registerOutcomeOwnRecord(id, key, record, existingValue) ==
    LET existingRecord == deserializeRecord(existingValue.value)
    IN  IF existingValue = Null
        THEN Thrown("IdempotencyError",
                    "Failed to persist idempotency record due to concurrent deletion")
        ELSE IF IsThrown(existingRecord) THEN existingRecord
        ELSE IF Field(existingRecord, "payloadHash") # Field(record, "payloadHash")
        THEN Thrown("IdempotencyCollisionError", "Collision detected for key " \o key)
        ELSE Registration(id, key, FALSE, record)

\* register that takes a vanished record for its own successful insert
registerOutcomeIgnoresMissing(id, key, record, existingValue) ==
    LET existingRecord == deserializeRecord(existingValue.value)
    IN  IF existingValue = Null
        THEN Registration(id, key, TRUE, record)
        ELSE IF IsThrown(existingRecord) THEN existingRecord
        ELSE IF Field(existingRecord, "payloadHash") # Field(record, "payloadHash")
        THEN Thrown("IdempotencyCollisionError", "Collision detected for key " \o key)
        ELSE Registration(id, key, FALSE, existingRecord)

\* register that compares the ids of the two records, not their payloadHash
registerOutcomeComparesId(id, key, record, existingValue) ==
    LET existingRecord == deserializeRecord(existingValue.value)
    IN  IF existingValue = Null
        THEN Thrown("IdempotencyError",
                    "Failed to persist idempotency record due to concurrent deletion")
        ELSE IF IsThrown(existingRecord) THEN existingRecord
        ELSE IF Field(existingRecord, "id") # Field(record, "id")
        THEN Thrown("IdempotencyCollisionError", "Collision detected for key " \o key)
        ELSE Registration(id, key, FALSE, existingRecord)

(* register after store.get: what it returns or throws *)
registerOutcome(id, key, record, existingValue) ==
    LET existingRecord == deserializeRecord(existingValue.value)
    IN  IF existingValue = Null
        THEN Thrown("IdempotencyError",
                    "Failed to persist idempotency record due to concurrent deletion")
        ELSE IF IsThrown(existingRecord) THEN existingRecord
        ELSE IF Field(existingRecord, "payloadHash") # Field(record, "payloadHash")
        THEN Thrown("IdempotencyCollisionError", "Collision detected for key " \o key)
        ELSE Registration(id, key, FALSE, existingRecord)

\* register that, when the key has vanished, tries the insert again
registerResumeRetrying(c) ==
    /\ pc[c] = "register_get"
    /\ LET g == get(store, call[c].key, currentTime)
           r == setIfAbsent(g.store, call[c].key, serializeRecord(call[c].record),
                            Field(call[c].record, "ttlSeconds"), currentTime)
       IN  IF g.result = Null
           THEN /\ store' = r.store
                /\ history' = [history EXCEPT ![call[c].key] =
                                   Live(call[c].record, currentTime)]
                /\ last' = Step(c, 2, call[c],
                                Registration(call[c].id, call[c].key, TRUE, call[c].record),
                                <<"setIfAbsent", "get", "setIfAbsent">>)
           ELSE /\ store' = g.store
                /\ history' = Expire(history, store, g.store)
                /\ last' = Step(c, 2, call[c],
                                registerOutcome(call[c].id, call[c].key, call[c].record,
                                                g.result),
                                <<"setIfAbsent", "get">>)
    /\ pc' = [pc EXCEPT ![c] = "idle"]
    /\ call' = [call EXCEPT ![c] = NoCall]
    /\ UNCHANGED <<manager, wallClock, timeOffset>>

(* register, resumed after setIfAbsent returned false: store.get and the rest *)
registerResume(c) ==
    /\ pc[c] = "register_get"
    /\ LET g == get(store, call[c].key, currentTime)
       IN  /\ store' = g.store
           /\ history' = Expire(history, store, g.store)
           /\ last' = Step(c, 2, call[c],
                           registerOutcome(call[c].id, call[c].key, call[c].record, g.result),
                           <<"setIfAbsent", "get">>)
    /\ pc' = [pc EXCEPT ![c] = "idle"]
    /\ call' = [call EXCEPT ![c] = NoCall]
    /\ UNCHANGED <<manager, wallClock, timeOffset>>

\* lookupById that prefers the ttlSeconds embedded in the record
lookupOutcomePrefersRecord(id, key, stored) ==
    LET record == deserializeRecord(stored.value)
    IN  IF stored = Null THEN Null
        ELSE IF IsThrown(record) THEN record
        ELSE [t |-> "lookup", id |-> id, key |-> key, record |-> record,
              ttlSeconds |->
                  Coalesce(Field(record, "ttlSeconds"), Coalesce(stored.ttlSeconds, Null))]

(* IdempotencyManager.lookupById, on what store.get returned *)
lookupOutcome(id, key, stored) ==
    LET record == deserializeRecord(stored.value)
    IN  IF stored = Null THEN Null
        ELSE IF IsThrown(record) THEN record
        ELSE [t |-> "lookup", id |-> id, key |-> key, record |-> record,
              ttlSeconds |->
                  Coalesce(stored.ttlSeconds, Coalesce(Field(record, "ttlSeconds"), Null))]

lookupById(c, id) ==
    /\ pc[c] = "idle"
    /\ LET key == buildKey(manager, id)
           g == get(store, key, currentTime)
       IN  /\ store' = g.store
           /\ history' = Expire(history, store, g.store)
           /\ last' = Step(c, 1, [op |-> "lookupById", id |-> id, key |-> key],
                           lookupOutcome(id, key, g.result), <<"get">>)
    /\ UNCHANGED <<manager, wallClock, timeOffset, pc, call>>

(* IdempotencyManager.lookupByPayload *)
lookupByCanonical(c, canonicalPayload) ==
    /\ pc[c] = "idle"
    /\ LET id == hashCanonicalValue(canonicalPayload.v, manager.hashAlgorithm)
           key == buildKey(manager, id)
           g == get(store, key, currentTime)
       IN  IF IsThrown(canonicalPayload)
           THEN /\ last' = Step(c, 1, [op |-> "lookupByPayload", id |-> "", key |-> ""],
                                canonicalPayload, <<>>)
                /\ UNCHANGED <<store, history>>
           ELSE /\ store' = g.store
                /\ history' = Expire(history, store, g.store)
                /\ last' = Step(c, 1, [op |-> "lookupByPayload", id |-> id, key |-> key],
                                lookupOutcome(id, key, g.result), <<"get">>)
    /\ UNCHANGED <<manager, wallClock, timeOffset, pc, call>>

\* const id = this.generateId(payload), and the rest of lookupByPayload
lookupByPayload(c, payload) ==
    lookupByCanonical(c, canonicalOf[payload])

(* IdempotencyManager.clear *)
clear(c, id) ==
    /\ pc[c] = "idle"
    /\ LET key == buildKey(manager, id)
           d == delete(store, key)
       IN  /\ store' = d.store
           /\ history' = IF d.result THEN [history EXCEPT ![key] = [state |-> "cleared"]]
                         ELSE history
           /\ last' = Step(c, 1, [op |-> "clear", id |-> id, key |-> key],
                           Bool(d.result), <<"delete">>)
    /\ UNCHANGED <<manager, wallClock, timeOffset, pc, call>>

(* IdempotencyManager.updateTtl: up to the await of store.get *)
updateTtl(c, id, ttlSeconds) ==
    /\ pc[c] = "idle"
    /\ LET key == buildRedisKey(manager, id)
           newTtl == resolveTtl(manager, ttlSeconds)
           g == get(store, key, currentTime)
           stored == g.result
           locals == [op |-> "updateTtl", id |-> id, key |-> key,
                      ttlSeconds |-> ttlSeconds,
                      value |-> stored.value, newTtl |-> newTtl,
                      origin |-> IF history[key].state = "live" THEN history[key].origin
                                 ELSE Undefined]
       IN  IF IsThrown(newTtl)
           THEN /\ last' = Step(c, 1, [op |-> "updateTtl", id |-> id, key |-> key,
                                      ttlSeconds |-> ttlSeconds],
                                newTtl, <<>>)
                /\ UNCHANGED <<store, pc, call, history>>
           ELSE /\ store' = g.store
                /\ history' = Expire(history, store, g.store)
                /\ IF stored = Null
                   THEN /\ last' = Step(c, 1, [op |-> "updateTtl", id |-> id, key |-> key,
                                              ttlSeconds |-> ttlSeconds],
                                        Thrown("IdempotencyError",
                                               "Cannot update TTL for missing key " \o key),
                                        <<"get">>)
                        /\ UNCHANGED <<pc, call>>
                   ELSE /\ pc' = [pc EXCEPT ![c] = "updateTtl_update"]
                        /\ call' = [call EXCEPT ![c] = locals]
                        /\ last' = Step(c, 1, locals, Suspended, <<"get">>)
    /\ UNCHANGED <<manager, wallClock, timeOffset>>

\* updateTtl that writes back the id and the TTL only, without the payloadHash
recordToStoreWithoutHash(existingRecord, newTtl) ==
    Obj(<< <<"id", Field(existingRecord, "id")>>,
           <<"ttlSeconds", IF isFiniteTtl(newTtl) THEN newTtl ELSE Null>> >>)

\* updateTtl that builds the record anew and loses what register had put in it
recordToStoreFresh(existingRecord, newTtl) ==
    Obj(<< <<"id", Field(existingRecord, "id")>>,
           <<"payloadHash", Field(existingRecord, "payloadHash")>>,
           <<"ttlSeconds", IF isFiniteTtl(newTtl) THEN newTtl ELSE Null>> >>)

\* updateTtl that gives the store the new TTL and leaves the record's ttlSeconds
recordToStoreKeepsTtl(existingRecord, newTtl) ==
    existingRecord

(* updateTtl: the record it writes back *)
recordToStore(existingRecord, newTtl) ==
    SpreadWith(existingRecord, "ttlSeconds", IF isFiniteTtl(newTtl) THEN newTtl ELSE Null)

(* updateTtl, resumed after store.get: the rewrite and store.update *)
updateTtlResume(c) ==
    /\ pc[c] = "updateTtl_update"
    /\ LET key == call[c].key
           newTtl == call[c].newTtl
           existingRecord == deserializeRecord(call[c].value)
           serialized == serializeRecord(recordToStore(existingRecord, newTtl))
           u == update(store, key, serialized, newTtl, currentTime)
       IN  IF IsThrown(existingRecord)
           THEN /\ last' = Step(c, 2, call[c], existingRecord, <<"get">>)
                /\ UNCHANGED <<store, history>>
           ELSE /\ store' = u.store
                /\ history' =
                     IF IsThrown(u.result) THEN Expire(history, store, u.store)
                     ELSE [history EXCEPT ![key] =
                             IF @.state = "live"
                             THEN [state |-> "live", inserted |-> @.inserted,
                                   origin |-> call[c].origin, at |-> 0, updated |-> TRUE,
                                   ttl |-> newTtl]
                             ELSE @]
                /\ last' = Step(c, 2, call[c], u.result, <<"get", "update">>)
    /\ pc' = [pc EXCEPT ![c] = "idle"]
    /\ call' = [call EXCEPT ![c] = NoCall]
    /\ UNCHANGED <<manager, wallClock, timeOffset>>

(* Real time passes: Date.now() moves on, the Map is not touched *)
Tick(ms) ==
    /\ wallClock + ms <= MaxTicks * MsPerSecond
    /\ wallClock' = wallClock + ms
    /\ last' = NoStep
    /\ UNCHANGED <<manager, store, timeOffset, pc, call, history>>

(* InMemoryIdempotencyStore.advanceTime *)
advanceTime(milliseconds) ==
    /\ 2 * (timeOffset + milliseconds) <= MaxAdvances * MsPerSecond
    /\ IF milliseconds <= 0
       THEN UNCHANGED <<timeOffset, store, history>>
       ELSE LET purged == purgeExpiredEntries(store, currentTime + milliseconds)
            IN  /\ timeOffset' = timeOffset + milliseconds
                /\ store' = purged
                /\ history' = Expire(history, store, purged)
    /\ last' = NoStep
    /\ UNCHANGED <<manager, wallClock, pc, call>>

(* TestStore.forceSet *)
forceSet(st, key, value) == MapSet(st, key, [value |-> value, expiresAt |-> Null])

(* The collision test's write: the record of a registered key, under the same *)
(* key, with another payloadHash                                             *)
forceCollision(key) ==
    /\ key \in DOMAIN store
    /\ history[key].state = "live"
    /\ store' = forceSet(store, key,
                         JsonText(SpreadWith(StoredRecord(store, key),
                                             "payloadHash", Str("different-hash"))))
    /\ history' = [history EXCEPT ![key] = [state |-> "forced"]]
    /\ last' = NoStep
    /\ UNCHANGED <<manager, wallClock, timeOffset, pc, call>>

-----------------------------------------------------------------------------
(* Spec: concurrent clients calling the manager on one logical payload, *)
(* and the clock                                                        *)

CallRegister ==
    /\ \E c \in Clients, p \in Payloads, o \in RegisterOptions : register(c, p, o)
    /\ UNCHANGED outcome

ResumeRegister ==
    /\ \E c \in Clients : registerResume(c)
    /\ UNCHANGED outcome

CallLookupById ==
    /\ \E c \in Clients, id \in Ids(manager) : lookupById(c, id)
    /\ UNCHANGED outcome

CallLookupByPayload ==
    /\ \E c \in Clients, p \in Payloads : lookupByPayload(c, p)
    /\ UNCHANGED outcome

CallClear ==
    /\ \E c \in Clients, id \in Ids(manager) : clear(c, id)
    /\ UNCHANGED outcome

CallUpdateTtl ==
    /\ \E c \in Clients, id \in Ids(manager), ttl \in TtlInputs : updateTtl(c, id, ttl)
    /\ UNCHANGED outcome

ResumeUpdateTtl ==
    /\ \E c \in Clients : updateTtlResume(c)
    /\ UNCHANGED outcome

ClockTick ==
    /\ \E ms \in TickStepsMs : Tick(ms)
    /\ UNCHANGED outcome

AdvanceStoreTime ==
    /\ \E ms \in AdvanceStepsMs : advanceTime(ms)
    /\ UNCHANGED outcome

Next ==
    \/ CallRegister
    \/ ResumeRegister
    \/ CallLookupById
    \/ CallClear
    \/ CallUpdateTtl
    \/ ResumeUpdateTtl
    \/ ClockTick
    \/ AdvanceStoreTime

Spec == Init /\ [][Next]_vars

-----------------------------------------------------------------------------
(* SpecRace: every client registers the one payload once, on an empty store, *)
(* while no record expires                                                  *)

raceRegister(c) ==
    /\ outcome[c] = Undefined
    /\ \E p \in Payloads, o \in RegisterOptions : register(c, p, o)
    /\ outcome' = [outcome EXCEPT ![c] = last'.value]

raceResume(c) ==
    /\ registerResume(c)
    /\ outcome' = [outcome EXCEPT ![c] = last'.value]

QuietTick(ms) ==
    /\ \A k \in DOMAIN store :
           IF store[k].expiresAt = Null THEN TRUE
           ELSE store[k].expiresAt.v > currentTime + ms
    /\ Tick(ms)
    /\ UNCHANGED outcome

RaceNext ==
    \/ \E c \in Clients : raceRegister(c)
    \/ \E c \in Clients : raceResume(c)
    \/ \E ms \in TickStepsMs : QuietTick(ms)

SpecRace == Init /\ [][RaceNext]_vars

-----------------------------------------------------------------------------
(* SpecForce: registrations with every option, lookups and clear, on a store *)
(* that the collision test's write also reaches                             *)

CallRegisterWide ==
    /\ \E c \in Clients, p \in Payloads, o \in RegisterOptionsWide : register(c, p, o)
    /\ UNCHANGED outcome

ForceCollision ==
    /\ \E k \in KeysOf(manager) : forceCollision(k)
    /\ UNCHANGED outcome

ForceNext ==
    \/ CallRegisterWide
    \/ ResumeRegister
    \/ CallLookupById
    \/ CallLookupByPayload
    \/ CallClear
    \/ ForceCollision
    \/ ClockTick

SpecForce == Init /\ [][ForceNext]_vars

-----------------------------------------------------------------------------
(* SpecSolo: one client calling a manager built with or without a default   *)
(* TTL, with every kind of ttlSeconds argument, the clock, and the collision *)
(* test's write                                                             *)

InitSolo ==
    /\ manager \in {IdempotencyManager(TRUE, ManagerOptions),
                    IdempotencyManager(TRUE, ManagerOptionsNoDefault)}
    /\ store = EmptyMap
    /\ wallClock = 0
    /\ timeOffset = 0
    /\ pc = [c \in Clients |-> "idle"]
    /\ call = [c \in Clients |-> NoCall]
    /\ last = NoStep
    /\ history = [k \in KeysOf(manager) |-> Never]
    /\ outcome = [c \in Clients |-> Undefined]

SoloRegister ==
    /\ \E p \in Payloads, o \in SoloOptions : register(1, p, o)
    /\ UNCHANGED outcome

SoloLookupById ==
    /\ \E id \in Ids(manager) : lookupById(1, id)
    /\ UNCHANGED outcome

SoloLookupByPayload ==
    /\ \E p \in Payloads : lookupByPayload(1, p)
    /\ UNCHANGED outcome

SoloClear ==
    /\ \E id \in Ids(manager) : clear(1, id)
    /\ UNCHANGED outcome

SoloUpdateTtl ==
    /\ \E id \in Ids(manager), ttl \in TtlInputsWide : updateTtl(1, id, ttl)
    /\ UNCHANGED outcome

SoloNext ==
    \/ SoloRegister
    \/ ResumeRegister
    \/ SoloLookupById
    \/ SoloLookupByPayload
    \/ SoloClear
    \/ SoloUpdateTtl
    \/ ResumeUpdateTtl
    \/ ClockTick
    \/ AdvanceStoreTime
    \/ ForceCollision

SpecSolo == InitSolo /\ [][SoloNext]_vars

-----------------------------------------------------------------------------
(* SpecCanon: the clients compute ids of payloads, with the manager's         *)
(* generateId and with steadyKey; outcome keeps the payload and what came out *)

Generated(payload, canonical, id) ==
    [t |-> "generated", payload |-> payload, canonical |-> canonical, id |-> id]

(* IdempotencyManager.generateId *)
callGenerateId(c, payload) ==
    /\ pc[c] = "idle"
    /\ LET value == Generated(payload, canonicalOf[payload], generateId(manager, payload))
       IN  /\ outcome' = [outcome EXCEPT ![c] = value]
           /\ last' = Step(c, 1, [op |-> "generateId", id |-> "", key |-> ""], value, <<>>)
    /\ UNCHANGED <<manager, store, wallClock, timeOffset, pc, call, history>>

(* steadyKey(payload), with no options *)
steadyKey(c, payload) ==
    /\ pc[c] = "idle"
    /\ LET canonicalPayload == canonicalOf[payload]
           algorithm == Coalesce(Undefined, Str("sha256"))
           value == Generated(payload, canonicalPayload,
                              IF IsThrown(canonicalPayload) THEN canonicalPayload
                              ELSE hashCanonicalValue(canonicalPayload.v, algorithm.v))
       IN  /\ outcome' = [outcome EXCEPT ![c] = value]
           /\ last' = Step(c, 1, [op |-> "steadyKey", id |-> "", key |-> ""], value, <<>>)
    /\ UNCHANGED <<manager, store, wallClock, timeOffset, pc, call, history>>

CanonNext ==
    \/ \E c \in Clients, p \in CanonPayloads : callGenerateId(c, p)
    \/ \E c \in Clients, p \in CanonPayloads : steadyKey(c, p)

SpecCanon == Init /\ [][CanonNext]_vars

(* SpecKinds: the same two functions over payloads of every kind *)

KindNext ==
    \/ \E c \in Clients, p \in KindPayloads : callGenerateId(c, p)
    \/ \E c \in Clients, p \in KindPayloads : steadyKey(c, p)

SpecKinds == Init /\ [][KindNext]_vars

-----------------------------------------------------------------------------
(* The other storage adapters.  In their specifications the variable store   *)
(* is the table of the backend (the items of the DynamoDB table, the cache   *)
(* of the Memcached server, the Mongo collection, the rows of the Postgres   *)
(* table) and wallClock is the one clock of the process and of the backend.  *)

\* a call of a store method, up to its return
StoreCall(c, op, key, args, r) ==
    /\ pc[c] = "idle"
    /\ store' = r.store
    /\ last' = Step(c, 1, [op |-> op, id |-> "", key |-> key, args |-> args], r.result, <<op>>)
    /\ UNCHANGED <<manager, wallClock, timeOffset, pc, call, history>>

\* a call of a store method that stops at an await
StoreCallSuspends(c, op, key, args, at) ==
    /\ pc[c] = "idle"
    /\ pc' = [pc EXCEPT ![c] = at]
    /\ call' = [call EXCEPT ![c] = [op |-> op, id |-> "", key |-> key, args |-> args]]
    /\ last' = Step(c, 1, [op |-> op, id |-> "", key |-> key, args |-> args], Suspended, <<op>>)
    /\ UNCHANGED <<manager, store, wallClock, timeOffset, history>>

\* the rest of a store method that stopped at the await named at
StoreCallResumes(c, at, r, note) ==
    /\ pc[c] = at
    /\ store' = r.store
    /\ pc' = [pc EXCEPT ![c] = "idle"]
    /\ call' = [call EXCEPT ![c] = NoCall]
    /\ last' = Step(c, 2, [call[c] EXCEPT !.args = note], r.result, <<call[c].op, "delete">>)
    /\ UNCHANGED <<manager, wallClock, timeOffset, history>>

StoreValue(value, ttlSeconds) ==
    [t |-> "storeValue", value |-> value, ttlSeconds |-> ttlSeconds]

\* what the callers of the stores pass
StoreKeys == {"k"}
StoreValues == {Str("v1"), Str("v2")}
StoreTtls == {Null, Num(1)}

-----------------------------------------------------------------------------
(* stores/dynamodb-store.ts over the client of its test *)

CONDITIONAL_CHECK_FAILED == "ConditionalCheckFailedException"

epochSecondsFromTtl(ttlSeconds, nowMs) ==
    IF ttlSeconds.t = "number" /\ isFiniteTtl(ttlSeconds)
    THEN Num(nowMs \div MsPerSecond + ttlSeconds.v)
    ELSE Null

ttlFromEpochSeconds(epochSeconds, nowMs) ==
    IF epochSeconds.t # "number" THEN Null
    ELSE LET remaining == epochSeconds.v - nowMs \div MsPerSecond
         IN  IF remaining <= 0 THEN Num(0) ELSE Num(remaining)

\* FakeDynamoDbClient.put with attribute_not_exists(#pk)
fakePut(items, key, item) ==
    IF key \in DOMAIN items
    THEN [items |-> items, error |-> Thrown(CONDITIONAL_CHECK_FAILED, CONDITIONAL_CHECK_FAILED)]
    ELSE [items |-> MapSet(items, key, item), error |-> Undefined]

\* FakeDynamoDbClient.update with attribute_exists(#pk): SET #value and either
\* SET #ttl (ttlEpoch a number) or REMOVE #ttl (ttlEpoch null)
fakeUpdate(items, key, value, ttlEpoch) ==
    IF key \notin DOMAIN items
    THEN [items |-> items, error |-> Thrown(CONDITIONAL_CHECK_FAILED, CONDITIONAL_CHECK_FAILED)]
    ELSE [items |-> MapSet(items, key,
                           [value |-> value,
                            expiresAt |-> IF ttlEpoch # Null THEN ttlEpoch ELSE Undefined]),
          error |-> Undefined]

\* FakeDynamoDbClient.delete with ReturnValues ALL_OLD: Attributes, when the item existed
fakeDelete(items, key) ==
    [items |-> MapDelete(items, key),
     Attributes |-> IF key \in DOMAIN items THEN items[key] ELSE Undefined]

isConditionalCheckFailed(error) ==
    IsThrown(error) /\ error.error = CONDITIONAL_CHECK_FAILED

dynamoSetIfAbsent(items, key, value, ttlSeconds, nowMs) ==
    LET ttlEpoch == epochSecondsFromTtl(ttlSeconds, nowMs)
        item == [value |-> value,
                 expiresAt |-> IF ttlEpoch # Null THEN ttlEpoch ELSE Undefined]
        r == fakePut(items, key, item)
    IN  IF r.error = Undefined THEN [store |-> r.items, result |-> Bool(TRUE)]
        ELSE IF isConditionalCheckFailed(r.error) THEN [store |-> r.items, result |-> Bool(FALSE)]
        ELSE [store |-> r.items,
              result |-> Thrown("IdempotencyError",
                                "Failed to persist key " \o key \o " in DynamoDB store")]

\* get up to its return, or up to the await of the clean-up delete: cleanup
\* tells which
dynamoGet(items, key, nowMs) ==
    IF key \notin DOMAIN items THEN [store |-> items, result |-> Null, cleanup |-> FALSE]
    ELSE LET item == items[key]
             rawValue == item.value
             ttlEpochRaw == item.expiresAt
             ttlSeconds == ttlFromEpochSeconds(Coalesce(ttlEpochRaw, Null), nowMs)
         IN  IF rawValue.t # "string"
             THEN [store |-> items, cleanup |-> FALSE,
                   result |-> Thrown("IdempotencyError",
                                     "Stored value for key " \o key
                                         \o " in DynamoDB must be a string")]
             ELSE IF ttlEpochRaw # Undefined /\ ttlEpochRaw # Null /\ ttlEpochRaw.t # "number"
             THEN [store |-> items, cleanup |-> FALSE,
                   result |-> Thrown("IdempotencyError",
                                     "TTL attribute for key " \o key
                                         \o " in DynamoDB must be a number when present")]
             ELSE IF ttlSeconds = Num(0)
             THEN [store |-> items, result |-> Null, cleanup |-> TRUE]
             ELSE [store |-> items, result |-> StoreValue(rawValue, ttlSeconds),
                   cleanup |-> FALSE]

\* the clean-up delete of get, which the client may fail, and the return
dynamoGetCleanup(items, key, failed) ==
    [store |-> IF failed THEN items ELSE fakeDelete(items, key).items, result |-> Null]

dynamoUpdate(items, key, value, ttlSeconds, nowMs) ==
    LET ttlEpoch == epochSecondsFromTtl(ttlSeconds, nowMs)
        r == fakeUpdate(items, key, value, ttlEpoch)
    IN  IF r.error = Undefined THEN [store |-> r.items, result |-> Undefined]
        ELSE IF isConditionalCheckFailed(r.error)
        THEN [store |-> r.items,
              result |-> Thrown("IdempotencyError",
                                "Failed to update key " \o key
                                    \o " in DynamoDB store: key does not exist")]
        ELSE [store |-> r.items,
              result |-> Thrown("IdempotencyError",
                                "Failed to update key " \o key \o " in DynamoDB store")]

dynamoDelete(items, key) ==
    LET response == fakeDelete(items, key)
    IN  [store |-> response.items, result |-> Bool(response.Attributes # Undefined)]

DynamoSetIfAbsent ==
    /\ \E c \in Clients, k \in StoreKeys, v \in StoreValues, ttl \in StoreTtls :
           StoreCall(c, "setIfAbsent", k, [value |-> v, ttlSeconds |-> ttl],
                     dynamoSetIfAbsent(store, k, v, ttl, wallClock))
    /\ UNCHANGED outcome

DynamoGet ==
    /\ \E c \in Clients, k \in StoreKeys :
           LET r == dynamoGet(store, k, wallClock)
           IN  IF r.cleanup THEN StoreCallSuspends(c, "get", k, <<>>, "get_delete")
               ELSE StoreCall(c, "get", k, <<>>, r)
    /\ UNCHANGED outcome

DynamoGetCleanup ==
    /\ \E c \in Clients, failed \in BOOLEAN :
           /\ pc[c] = "get_delete"
           /\ StoreCallResumes(c, "get_delete", dynamoGetCleanup(store, call[c].key, failed),
                               [deleteFailed |-> failed])
    /\ UNCHANGED outcome

DynamoUpdate ==
    /\ \E c \in Clients, k \in StoreKeys, v \in StoreValues, ttl \in StoreTtls :
           StoreCall(c, "update", k, [value |-> v, ttlSeconds |-> ttl],
                     dynamoUpdate(store, k, v, ttl, wallClock))
    /\ UNCHANGED outcome

DynamoDelete ==
    /\ \E c \in Clients, k \in StoreKeys :
           StoreCall(c, "delete", k, <<>>, dynamoDelete(store, k))
    /\ UNCHANGED outcome

DynamoNext ==
    \/ DynamoSetIfAbsent
    \/ DynamoGet
    \/ DynamoGetCleanup
    \/ DynamoUpdate
    \/ DynamoDelete
    \/ ClockTick

SpecDynamo == Init /\ [][DynamoNext]_vars

\* the store with no caller of update: items come from setIfAbsent alone, and
\* go by delete (a clear, or the table's TTL reaper) and by the clean-up of get
DynamoInsertNext ==
    \/ DynamoSetIfAbsent
    \/ DynamoGet
    \/ DynamoGetCleanup
    \/ DynamoDelete
    \/ ClockTick

SpecDynamoInsert == Init /\ [][DynamoInsertNext]_vars

-----------------------------------------------------------------------------
(* stores/memcached-store.ts over a Memcached server: add stores a key that  *)
(* the cache does not hold, set stores it in every case, and an item is gone *)
(* from the cache once its lifetime is over (lifetime 0: never)              *)

lifetimeFromTtl(ttlSeconds) ==
    IF ttlSeconds.t = "number" /\ isFiniteTtl(ttlSeconds) THEN ttlSeconds.v ELSE 0

\* the cache holds key
cacheHolds(cache, key, nowMs) ==
    key \in DOMAIN cache /\ (cache[key].expiresAt = Null \/ cache[key].expiresAt.v > nowMs)

cacheItem(value, lifetime, nowMs) ==
    [value |-> value,
     expiresAt |-> IF lifetime = 0 THEN Null ELSE Num(nowMs + lifetime * MsPerSecond)]

\* client.add
cacheAdd(cache, key, value, lifetime, nowMs) ==
    IF cacheHolds(cache, key, nowMs) THEN [cache |-> cache, success |-> FALSE]
    ELSE [cache |-> MapSet(cache, key, cacheItem(value, lifetime, nowMs)), success |-> TRUE]

\* client.set
cacheSet(cache, key, value, lifetime, nowMs) ==
    [cache |-> MapSet(cache, key, cacheItem(value, lifetime, nowMs)), success |-> TRUE]

\* client.get
cacheGet(cache, key, nowMs) ==
    IF cacheHolds(cache, key, nowMs) THEN cache[key].value ELSE Undefined

\* client.del
cacheDel(cache, key, nowMs) ==
    [cache |-> MapDelete(cache, key), success |-> cacheHolds(cache, key, nowMs)]

memcachedSetIfAbsent(cache, key, value, ttlSeconds, nowMs) ==
    LET lifetime == lifetimeFromTtl(ttlSeconds)
        r == cacheAdd(cache, key, value, lifetime, nowMs)
    IN  [store |-> r.cache, result |-> Bool(r.success)]

memcachedGet(cache, key, nowMs) ==
    LET data == cacheGet(cache, key, nowMs)
    IN  IF data = Undefined \/ data = Null THEN [store |-> cache, result |-> Null]
        ELSE [store |-> cache, result |-> StoreValue(data, Undefined)]

memcachedUpdate(cache, key, value, ttlSeconds, nowMs) ==
    LET lifetime == lifetimeFromTtl(ttlSeconds)
        r == cacheSet(cache, key, value, lifetime, nowMs)
    IN  IF ~r.success
        THEN [store |-> r.cache,
              result |-> Thrown("IdempotencyError",
                                "Failed to update key " \o key \o " in Memcached store")]
        ELSE [store |-> r.cache, result |-> Undefined]

memcachedDelete(cache, key, nowMs) ==
    LET r == cacheDel(cache, key, nowMs)
    IN  [store |-> r.cache, result |-> Bool(r.success)]

MemcachedSetIfAbsent ==
    /\ \E c \in Clients, k \in StoreKeys, v \in StoreValues, ttl \in StoreTtls :
           StoreCall(c, "setIfAbsent", k, [value |-> v, ttlSeconds |-> ttl],
                     memcachedSetIfAbsent(store, k, v, ttl, wallClock))
    /\ UNCHANGED outcome

MemcachedGet ==
    /\ \E c \in Clients, k \in StoreKeys :
           StoreCall(c, "get", k, <<>>, memcachedGet(store, k, wallClock))
    /\ UNCHANGED outcome

MemcachedUpdate ==
    /\ \E c \in Clients, k \in StoreKeys, v \in StoreValues, ttl \in StoreTtls :
           StoreCall(c, "update", k, [value |-> v, ttlSeconds |-> ttl],
                     memcachedUpdate(store, k, v, ttl, wallClock))
    /\ UNCHANGED outcome

MemcachedDelete ==
    /\ \E c \in Clients, k \in StoreKeys :
           StoreCall(c, "delete", k, <<>>, memcachedDelete(store, k, wallClock))
    /\ UNCHANGED outcome

MemcachedNext ==
    \/ MemcachedSetIfAbsent
    \/ MemcachedGet
    \/ MemcachedUpdate
    \/ MemcachedDelete
    \/ ClockTick

SpecMemcached == Init /\ [][MemcachedNext]_vars

-----------------------------------------------------------------------------
(* stores/redis-store.ts over a Redis server: store is the keyspace, each    *)
(* command is executed in one step, and a key whose expiry has passed is     *)
(* gone for every command                                                    *)

toTtlSeconds(ttl) ==
    IF ttl < 0 THEN Null ELSE Num(ttl)

\* the keyspace holds key
redisHolds(db, key, nowMs) ==
    key \in DOMAIN db /\ (db[key].expiresAt = Null \/ db[key].expiresAt.v > nowMs)

\* SET key value [NX | XX] [EX seconds]: without EX the key is left without expiry
redisSet(db, key, value, options, nowMs) ==
    IF options.NX /\ redisHolds(db, key, nowMs) THEN [db |-> db, reply |-> Null]
    ELSE IF options.XX /\ ~redisHolds(db, key, nowMs) THEN [db |-> db, reply |-> Null]
    ELSE [db |-> MapSet(db, key,
                        [value |-> value,
                         expiresAt |-> IF options.EX = Undefined THEN Null
                                       ELSE Num(nowMs + options.EX.v * MsPerSecond)]),
          reply |-> Str("OK")]

\* GET key
redisGetCommand(db, key, nowMs) ==
    IF redisHolds(db, key, nowMs) THEN db[key].value ELSE Null

\* TTL key: -2 for no key, -1 for no expiry, else the seconds left, rounded
redisTtl(db, key, nowMs) ==
    IF ~redisHolds(db, key, nowMs) THEN -2
    ELSE IF db[key].expiresAt = Null THEN -1
    ELSE (db[key].expiresAt.v - nowMs + MsPerSecond \div 2) \div MsPerSecond

\* PERSIST key
redisPersist(db, key, nowMs) ==
    IF redisHolds(db, key, nowMs) /\ db[key].expiresAt # Null
    THEN [db |-> MapSet(db, key, [value |-> db[key].value, expiresAt |-> Null]), reply |-> 1]
    ELSE [db |-> db, reply |-> 0]

\* DEL key
redisDel(db, key, nowMs) ==
    [db |-> MapDelete(db, key), reply |-> IF redisHolds(db, key, nowMs) THEN 1 ELSE 0]

\* the options of set: EX is given for a TTL that is a number above 0
redisSetOptions(flag, ttlSeconds) ==
    [NX |-> flag = "NX", XX |-> flag = "XX",
     EX |-> IF ttlSeconds.t = "number" /\ isFiniteTtl(ttlSeconds) THEN ttlSeconds
            ELSE Undefined]

(* RedisIdempotencyStore.setIfAbsent *)
redisSetIfAbsent(c, key, value, ttlSeconds) ==
    LET r == redisSet(store, key, value, redisSetOptions("NX", ttlSeconds), wallClock)
    IN  StoreCall(c, "setIfAbsent", key, [value |-> value, ttlSeconds |-> ttlSeconds],
                  [store |-> r.db, result |-> Bool(r.reply = Str("OK"))])

(* RedisIdempotencyStore.get: up to the await of redis.ttl *)
redisGet(c, key) ==
    LET value == redisGetCommand(store, key, wallClock)
    IN  IF value = Null
        THEN StoreCall(c, "get", key, <<>>, [store |-> store, result |-> Null])
        ELSE StoreCallSuspends(c, "get", key, [value |-> value], "redis_ttl")

(* RedisIdempotencyStore.get, resumed with the reply of redis.ttl *)
redisGetResume(c) ==
    /\ pc[c] = "redis_ttl"
    /\ pc' = [pc EXCEPT ![c] = "idle"]
    /\ call' = [call EXCEPT ![c] = NoCall]
    /\ last' = Step(c, 2, call[c],
                    StoreValue(call[c].args.value,
                               toTtlSeconds(redisTtl(store, call[c].key, wallClock))),
                    <<"get", "ttl">>)
    /\ UNCHANGED <<manager, store, wallClock, timeOffset, history>>

(* RedisIdempotencyStore.update: redis.set, up to the await of redis.persist *)
redisUpdate(c, key, value, ttlSeconds) ==
    LET r == redisSet(store, key, value, redisSetOptions("XX", ttlSeconds), wallClock)
        locals == [op |-> "update", id |-> "", key |-> key,
                   args |-> [value |-> value, ttlSeconds |-> ttlSeconds]]
    IN  /\ pc[c] = "idle"
        /\ store' = r.db
        /\ IF r.reply # Str("OK")
           THEN /\ last' = Step(c, 1, locals,
                                Thrown("IdempotencyError",
                                       "Failed to update key " \o key \o " in Redis store"),
                                <<"set">>)
                /\ UNCHANGED <<pc, call>>
           ELSE IF ttlSeconds = Null
           THEN /\ pc' = [pc EXCEPT ![c] = "redis_persist"]
                /\ call' = [call EXCEPT ![c] = locals]
                /\ last' = Step(c, 1, locals, Suspended, <<"set">>)
           ELSE /\ last' = Step(c, 1, locals, Undefined, <<"set">>)
                /\ UNCHANGED <<pc, call>>
        /\ UNCHANGED <<manager, wallClock, timeOffset, history>>

(* RedisIdempotencyStore.update, resumed after redis.set: redis.persist *)
redisUpdateResume(c) ==
    /\ pc[c] = "redis_persist"
    /\ store' = redisPersist(store, call[c].key, wallClock).db
    /\ pc' = [pc EXCEPT ![c] = "idle"]
    /\ call' = [call EXCEPT ![c] = NoCall]
    /\ last' = Step(c, 2, call[c], Undefined, <<"set", "persist">>)
    /\ UNCHANGED <<manager, wallClock, timeOffset, history>>

(* RedisIdempotencyStore.delete *)
redisDelete(c, key) ==
    LET r == redisDel(store, key, wallClock)
    IN  StoreCall(c, "delete", key, <<>>, [store |-> r.db, result |-> Bool(r.reply > 0)])

RedisSetIfAbsent ==
    /\ \E c \in Clients, k \in StoreKeys, v \in StoreValues, ttl \in StoreTtls :
           redisSetIfAbsent(c, k, v, ttl)
    /\ UNCHANGED outcome

RedisGet ==
    /\ \E c \in Clients, k \in StoreKeys : redisGet(c, k)
    /\ UNCHANGED outcome

RedisGetResume ==
    /\ \E c \in Clients : redisGetResume(c)
    /\ UNCHANGED outcome

RedisUpdate ==
    /\ \E c \in Clients, k \in StoreKeys, v \in StoreValues, ttl \in StoreTtls :
           redisUpdate(c, k, v, ttl)
    /\ UNCHANGED outcome

RedisUpdateResume ==
    /\ \E c \in Clients : redisUpdateResume(c)
    /\ UNCHANGED outcome

RedisDelete ==
    /\ \E c \in Clients, k \in StoreKeys : redisDelete(c, k)
    /\ UNCHANGED outcome

RedisNext ==
    \/ RedisSetIfAbsent
    \/ RedisGet
    \/ RedisGetResume
    \/ RedisUpdate
    \/ RedisUpdateResume
    \/ RedisDelete
    \/ ClockTick

SpecRedis == Init /\ [][RedisNext]_vars

-----------------------------------------------------------------------------

(* stores/mongo-store.ts over a collection with the TTL index on expiresAt   *)
(* that the constructor creates                                              *)

DUPLICATE_KEY == 11000

\* new Date(Date.now() + ttlSeconds * 1000), or null
mongoExpiresAt(ttlSeconds, nowMs) ==
    IF ttlSeconds.t = "number" /\ isFiniteTtl(ttlSeconds)
    THEN Num(nowMs + ttlSeconds.v * MsPerSecond)
    ELSE Null

\* ttlFromDate of mongo-store.ts
mongoTtlFromDate(expiresAt, nowMs) ==
    IF expiresAt = Undefined \/ expiresAt = Null THEN Null
    ELSE LET diff == (expiresAt.v - nowMs) \div MsPerSecond
         IN  IF diff > 0 THEN Num(diff) ELSE Num(0)

\* collection.insertOne
insertOne(docs, key, doc) ==
    IF key \in DOMAIN docs THEN [docs |-> docs, error |-> Num(DUPLICATE_KEY)]
    ELSE [docs |-> MapSet(docs, key, doc), error |-> Undefined]

\* collection.updateOne with $set of value and expiresAt
updateOne(docs, key, value, expiresAt) ==
    IF key \notin DOMAIN docs THEN [docs |-> docs, matchedCount |-> 0]
    ELSE [docs |-> MapSet(docs, key, [value |-> value, expiresAt |-> expiresAt]),
          matchedCount |-> 1]

\* collection.deleteOne
deleteOne(docs, key) ==
    [docs |-> MapDelete(docs, key), deletedCount |-> IF key \in DOMAIN docs THEN 1 ELSE 0]

isDuplicateKeyError(error) == error = Num(DUPLICATE_KEY)

mongoSetIfAbsent(docs, key, value, ttlSeconds, nowMs) ==
    LET expiresAt == mongoExpiresAt(ttlSeconds, nowMs)
        r == insertOne(docs, key, [value |-> value,
                                   expiresAt |-> Coalesce(expiresAt, Undefined)])
    IN  IF r.error = Undefined THEN [store |-> r.docs, result |-> Bool(TRUE)]
        ELSE IF isDuplicateKeyError(r.error) THEN [store |-> r.docs, result |-> Bool(FALSE)]
        ELSE [store |-> r.docs, result |-> Thrown("MongoError", "insertOne")]

\* get up to its return, or up to the await of this.delete(key): cleanup tells which
mongoGet(docs, key, nowMs) ==
    IF key \notin DOMAIN docs THEN [store |-> docs, result |-> Null, cleanup |-> FALSE]
    ELSE LET document == docs[key]
         IN  IF document.expiresAt \notin {Undefined, Null} /\ document.expiresAt.v <= nowMs
             THEN [store |-> docs, result |-> Null, cleanup |-> TRUE]
             ELSE [store |-> docs, cleanup |-> FALSE,
                   result |-> StoreValue(document.value,
                                         mongoTtlFromDate(document.expiresAt, nowMs))]

mongoDelete(docs, key) ==
    LET result == deleteOne(docs, key)
    IN  [store |-> result.docs, result |-> Bool(result.deletedCount > 0)]

\* await this.delete(key) of get, whose deleteOne the driver may fail, and the return
mongoGetCleanup(docs, key, failed) ==
    IF failed THEN [store |-> docs, result |-> Thrown("MongoError", "deleteOne")]
    ELSE [store |-> mongoDelete(docs, key).store, result |-> Null]

mongoUpdate(docs, key, value, ttlSeconds, nowMs) ==
    LET expiresAt == mongoExpiresAt(ttlSeconds, nowMs)
        updateResult == updateOne(docs, key, value, Coalesce(expiresAt, Null))
    IN  IF updateResult.matchedCount = 0
        THEN [store |-> updateResult.docs,
              result |-> Thrown("IdempotencyError",
                                "Failed to update key " \o key \o " in MongoDB store")]
        ELSE [store |-> updateResult.docs, result |-> Undefined]

MongoSetIfAbsent ==
    /\ \E c \in Clients, k \in StoreKeys, v \in StoreValues, ttl \in StoreTtls :
           StoreCall(c, "setIfAbsent", k, [value |-> v, ttlSeconds |-> ttl],
                     mongoSetIfAbsent(store, k, v, ttl, wallClock))
    /\ UNCHANGED outcome

MongoGet ==
    /\ \E c \in Clients, k \in StoreKeys :
           LET r == mongoGet(store, k, wallClock)
           IN  IF r.cleanup THEN StoreCallSuspends(c, "get", k, <<>>, "get_delete")
               ELSE StoreCall(c, "get", k, <<>>, r)
    /\ UNCHANGED outcome

MongoGetCleanup ==
    /\ \E c \in Clients, failed \in BOOLEAN :
           /\ pc[c] = "get_delete"
           /\ StoreCallResumes(c, "get_delete", mongoGetCleanup(store, call[c].key, failed),
                               [deleteFailed |-> failed])
    /\ UNCHANGED outcome

MongoUpdate ==
    /\ \E c \in Clients, k \in StoreKeys, v \in StoreValues, ttl \in StoreTtls :
           StoreCall(c, "update", k, [value |-> v, ttlSeconds |-> ttl],
                     mongoUpdate(store, k, v, ttl, wallClock))
    /\ UNCHANGED outcome

MongoDelete ==
    /\ \E c \in Clients, k \in StoreKeys :
           StoreCall(c, "delete", k, <<>>, mongoDelete(store, k))
    /\ UNCHANGED outcome

\* the TTL index at work: the server removes a document whose expiresAt has passed
MongoTtlIndex ==
    /\ \E k \in DOMAIN store :
           /\ store[k].expiresAt \notin {Undefined, Null}
           /\ store[k].expiresAt.v <= wallClock
           /\ store' = MapDelete(store, k)
    /\ last' = NoStep
    /\ UNCHANGED <<manager, wallClock, timeOffset, pc, call, history, outcome>>

MongoNext ==
    \/ MongoSetIfAbsent
    \/ MongoGet
    \/ MongoGetCleanup
    \/ MongoUpdate
    \/ MongoDelete
    \/ MongoTtlIndex
    \/ ClockTick

SpecMongo == Init /\ [][MongoNext]_vars

-----------------------------------------------------------------------------
(* The Postgres store (PostgresIdempotencyStore) over its table, and the     *)
(* manager's register and clear over that store                              *)

\* toDateOrNull
toDateOrNull(ttlSeconds, nowMs) ==
    IF ttlSeconds.t = "number" /\ isFiniteTtl(ttlSeconds)
    THEN Num(nowMs + ttlSeconds.v * MsPerSecond)
    ELSE Null

\* ttlFromDate of the Postgres store
pgTtlFromDate(expiresAt, nowMs) ==
    IF expiresAt = Null THEN Null
    ELSE LET remaining == (expiresAt.v - nowMs) \div MsPerSecond
         IN  IF remaining > 0 THEN Num(remaining) ELSE Num(0)

\* (expires_at IS NULL OR expires_at > NOW())
CURRENT_CONDITION(row, nowMs) ==
    row.expires_at = Null \/ row.expires_at.v > nowMs

\* INSERT ... ON CONFLICT (key) DO NOTHING
pgSetIfAbsent(rows, key, value, ttlSeconds, nowMs) ==
    LET expiresAt == toDateOrNull(ttlSeconds, nowMs)
        rowCount == IF key \in DOMAIN rows THEN 0 ELSE 1
    IN  [store |-> IF rowCount = 1
                   THEN MapSet(rows, key, [value |-> value, expires_at |-> expiresAt])
                   ELSE rows,
         result |-> Bool(rowCount = 1)]

\* SELECT ... WHERE key = $1 AND CURRENT_CONDITION LIMIT 1
pgGet(rows, key, nowMs) ==
    IF key \in DOMAIN rows /\ CURRENT_CONDITION(rows[key], nowMs)
    THEN [store |-> rows,
          result |-> StoreValue(rows[key].value, pgTtlFromDate(rows[key].expires_at, nowMs))]
    ELSE [store |-> rows, result |-> Null]

\* UPDATE ... SET value = $2, expires_at = $3 WHERE key = $1
pgUpdate(rows, key, value, ttlSeconds, nowMs) ==
    LET expiresAt == toDateOrNull(ttlSeconds, nowMs)
        rowCount == IF key \in DOMAIN rows THEN 1 ELSE 0
    IN  IF rowCount = 0
        THEN [store |-> rows,
              result |-> Thrown("IdempotencyError",
                                "Failed to update key " \o key \o " in Postgres store")]
        ELSE [store |-> MapSet(rows, key, [value |-> value, expires_at |-> expiresAt]),
              result |-> Undefined]

\* DELETE ... WHERE key = $1
pgDelete(rows, key) ==
    [store |-> MapDelete(rows, key), result |-> Bool(key \in DOMAIN rows)]

(* IdempotencyManager.register over the Postgres store: up to the await of    *)
(* store.setIfAbsent, and the return when it inserted                         *)
pgRegisterCanonical(c, options, canonicalPayload) ==
    /\ pc[c] = "idle"
    /\ LET id == hashCanonicalValue(canonicalPayload.v, manager.hashAlgorithm)
           key == buildKey(manager, id)
           ttlSeconds == resolveTtl(manager, options.ttlSeconds)
           storeCanonicalPayload ==
               Coalesce(options.storeCanonicalPayload, manager.storeCanonicalPayload)
           record ==
               Obj(<< <<"id", Str(id)>>,
                      <<"payloadHash", Str(id)>>,
                      <<"createdAt", Str(toISOString(wallClock))>>,
                      <<"metadata", options.metadata>>,
                      <<"canonicalPayload",
                        IF storeCanonicalPayload.v THEN canonicalPayload ELSE Undefined>>,
                      <<"ttlSeconds", ttlSeconds>> >>)
           serialized == serializeRecord(record)
           r == pgSetIfAbsent(store, key, serialized, ttlSeconds, wallClock)
           locals == [op |-> "register", id |-> id, key |-> key, options |-> options,
                      record |-> record]
       IN  IF IsThrown(canonicalPayload)
           THEN /\ last' = Step(c, 1, [op |-> "register", id |-> "", key |-> "",
                                      options |-> options],
                                canonicalPayload, <<>>)
                /\ UNCHANGED <<store, pc, call>>
           ELSE IF IsThrown(ttlSeconds)
           THEN /\ last' = Step(c, 1, [op |-> "register", id |-> id, key |-> key,
                                      options |-> options],
                                ttlSeconds, <<>>)
                /\ UNCHANGED <<store, pc, call>>
           ELSE IF r.result.v
           THEN /\ store' = r.store
                /\ last' = Step(c, 1, locals, Registration(id, key, TRUE, record),
                                <<"setIfAbsent">>)
                /\ UNCHANGED <<pc, call>>
           ELSE /\ store' = r.store
                /\ pc' = [pc EXCEPT ![c] = "register_get"]
                /\ call' = [call EXCEPT ![c] = locals]
                /\ last' = Step(c, 1, locals, Suspended, <<"setIfAbsent">>)
    /\ UNCHANGED <<manager, wallClock, timeOffset, history>>

\* const canonicalPayload = canonicalize(payload), and the rest of register
pgRegister(c, payload, options) ==
    pgRegisterCanonical(c, options, canonicalOf[payload])

(* register, resumed after setIfAbsent returned false: store.get and the rest *)
pgRegisterResume(c) ==
    /\ pc[c] = "register_get"
    /\ LET g == pgGet(store, call[c].key, wallClock)
       IN  /\ store' = g.store
           /\ last' = Step(c, 2, call[c],
                           registerOutcome(call[c].id, call[c].key, call[c].record, g.result),
                           <<"setIfAbsent", "get">>)
    /\ pc' = [pc EXCEPT ![c] = "idle"]
    /\ call' = [call EXCEPT ![c] = NoCall]
    /\ UNCHANGED <<manager, wallClock, timeOffset, history>>

(* IdempotencyManager.clear over the Postgres store *)
pgClear(c, id) ==
    /\ pc[c] = "idle"
    /\ LET key == buildKey(manager, id)
           d == pgDelete(store, key)
       IN  /\ store' = d.store
           /\ last' = Step(c, 1, [op |-> "clear", id |-> id, key |-> key], d.result,
                           <<"delete">>)
    /\ UNCHANGED <<manager, wallClock, timeOffset, pc, call, history>>

PgOptions ==
    [ttlSeconds : TtlInputs, metadata : {Undefined}, storeCanonicalPayload : {Undefined}]

PgRegister ==
    /\ \E c \in Clients, p \in Payloads, o \in PgOptions : pgRegister(c, p, o)
    /\ UNCHANGED outcome

PgResumeRegister ==
    /\ \E c \in Clients : pgRegisterResume(c)
    /\ UNCHANGED outcome

PgClear ==
    /\ \E c \in Clients, id \in Ids(manager) : pgClear(c, id)
    /\ UNCHANGED outcome

PgNext ==
    \/ PgRegister
    \/ PgResumeRegister
    \/ PgClear
    \/ ClockTick

SpecPostgres == Init /\ [][PgNext]_vars

\* The caller that retries: it registers PayloadA whenever it is idle, as it is
\* after an error.
Caller == CHOOSE c \in Clients : \A d \in Clients : c <= d

PgRetry ==
    /\ \E o \in PgOptions : pgRegister(Caller, PayloadA, o)
    /\ UNCHANGED outcome

\* the await of store.setIfAbsent completes for every client
PgResume(c) ==
    /\ pgRegisterResume(c)
    /\ UNCHANGED outcome

SpecPostgresFair ==
    SpecPostgres /\ WF_vars(PgRetry) /\ \A c \in Clients : WF_vars(PgResume(c))

-----------------------------------------------------------------------------
(* What the claims speak of *)

ImmutableFields == {"id", "payloadHash", "createdAt", "metadata", "canonicalPayload"}

\* the store holds key: the Map has it and it has not expired
Present(st, key, nowMs) ==
    key \in DOMAIN st /\ (st[key].expiresAt = Null \/ st[key].expiresAt.v > nowMs)

IsDuplicateReturn ==
    last.call.op = "register" /\ last.value.t = "registration" /\ ~last.value.stored

-----------------------------------------------------------------------------
\* C3: a register call that finds the key present with a matching payloadHash
\* returns stored:false and the record that is in the store, whose metadata,
\* createdAt and canonicalPayload are those of the call that created the record.
C3_DuplicateReturnsStoredRecord ==
    (/\ last.call.op = "register" /\ last.phase = 2
     /\ Present(last.before, last.call.key, currentTime)
     /\ Field(StoredRecord(last.before, last.call.key), "payloadHash") = Str(last.call.id))
    => /\ last.value = Registration(last.call.id, last.call.key, FALSE,
                                    StoredRecord(last.before, last.call.key))
       /\ history[last.call.key].state = "live"
       /\ Creation(last.value.record) = history[last.call.key].origin

\* a duplicate return to a call that supplied other metadata at another time
C3_Witness ==
    /\ IsDuplicateReturn
    /\ Field(last.call.record, "metadata") # Field(last.value.record, "metadata")
    /\ Field(last.call.record, "createdAt") # Field(last.value.record, "createdAt")
    /\ Field(last.value.record, "canonicalPayload") # Undefined

\* C4: when setIfAbsent returned false and the get that follows returns nothing,
\* register throws the IdempotencyError of a consistency failure, returns no
\* record and writes nothing.
C4_ConsistencyError ==
    (/\ last.call.op = "register" /\ last.phase = 2
     /\ ~Present(last.before, last.call.key, currentTime))
    => /\ last.value = Thrown("IdempotencyError",
                              "Failed to persist idempotency record due to concurrent deletion")
       /\ last.issued = <<"setIfAbsent", "get">>
       /\ last.call.key \notin DOMAIN store
       /\ \A k \in DOMAIN store : k \in DOMAIN last.before /\ store[k] = last.before[k]

C4_Witness ==
    /\ last.call.op = "register" /\ last.phase = 2
    /\ IsThrown(last.value) /\ last.value.error = "IdempotencyError"
    /\ history[last.call.key].state = "cleared"

\* C5: updateTtl on a key that is missing or expired fails with the error of a
\* missing key after the get, issues no update and leaves the key absent.
C5_UpdateTtlMissingKey ==
    (/\ last.call.op = "updateTtl" /\ last.phase = 1
     /\ ~Present(last.before, last.call.key, currentTime))
    => /\ last.value = Thrown("IdempotencyError",
                              "Cannot update TTL for missing key " \o last.call.key)
       /\ last.issued = <<"get">>
       /\ pc[last.client] = "idle"
       /\ last.call.key \notin DOMAIN store

\* updateTtl on a key whose entry had expired and was still in the Map
C5_Witness ==
    /\ last.call.op = "updateTtl" /\ last.phase = 1
    /\ IsThrown(last.value)
    /\ last.call.key \in DOMAIN last.before

\* C6: a register call on a key the store holds leaves the store as it was:
\* the stored value, its expiry and the set of keys are unchanged, whatever
\* ttlSeconds the call supplied.
C6_DuplicateLeavesStore ==
    (/\ last.call.op = "register"
     /\ last.call.key # ""
     /\ Present(last.before, last.call.key, currentTime))
    => store = last.before

\* a duplicate return to a call that supplied another ttlSeconds, other metadata
\* and another storeCanonicalPayload than the registration of the record
C6_Witness ==
    /\ IsDuplicateReturn
    /\ Field(last.call.record, "ttlSeconds") = Null
    /\ Field(last.call.record, "metadata") # Field(last.value.record, "metadata")
    /\ Field(last.call.record, "canonicalPayload") # Field(last.value.record, "canonicalPayload")
    /\ store[last.call.key].expiresAt # Null

\* C7: an updateTtl whose record was not written between its get and its update
\* changes only the record's ttlSeconds and the expiry of the entry.
C7_UpdateTtlRewritesOnlyTtl ==
    (/\ last.call.op = "updateTtl" /\ last.phase = 2
     /\ Present(last.before, last.call.key, currentTime)
     /\ last.before[last.call.key].value = last.call.value)
    => /\ last.value = Undefined
       /\ DOMAIN store = DOMAIN last.before
       /\ \A f \in ImmutableFields :
              Field(StoredRecord(store, last.call.key), f)
                  = Field(StoredRecord(last.before, last.call.key), f)
       /\ Field(StoredRecord(store, last.call.key), "ttlSeconds") = last.call.newTtl
       /\ store[last.call.key].expiresAt =
              IF last.call.newTtl = Null THEN Null
              ELSE Num(currentTime + last.call.newTtl.v * 1000)

\* a record with metadata and canonicalPayload whose ttlSeconds the update changed
C7_Witness ==
    /\ last.call.op = "updateTtl" /\ last.phase = 2 /\ last.value = Undefined
    /\ last.before[last.call.key].value = last.call.value
    /\ Field(StoredRecord(store, last.call.key), "metadata") = Str("m1")
    /\ Field(StoredRecord(store, last.call.key), "canonicalPayload") # Undefined
    /\ Field(StoredRecord(store, last.call.key), "ttlSeconds")
           # Field(StoredRecord(last.before, last.call.key), "ttlSeconds")

\* C8: under every interleaving, the record stored under a key carries the
\* createdAt, metadata and canonicalPayload of the register call that inserted
\* the key last.
C8_CreationFieldsPreserved ==
    \A k \in DOMAIN store :
        history[k].state = "live"
            => Creation(StoredRecord(store, k)) = Creation(history[k].inserted)

\* C9: updateTtl does not re-create a record: when the key is gone by the time of
\* the update, the update fails, updateTtl fails with it, and the key stays absent.
C9_UpdateNeverRecreates ==
    (/\ last.call.op = "updateTtl"
     /\ last.call.key # ""
     /\ ~Present(last.before, last.call.key, currentTime))
    => /\ IsThrown(last.value)
       /\ last.phase = 2 => (last.value.error = "Error" /\ last.issued = <<"get", "update">>)
       /\ last.call.key \notin DOMAIN store

\* the record was cleared between the get and the update of an updateTtl
C9_Witness ==
    /\ last.call.op = "updateTtl" /\ last.phase = 2
    /\ IsThrown(last.value)
    /\ history[last.call.key].state = "cleared"

\* C10: a record registered with a TTL of N seconds and not rewritten since is
\* gone from get and from lookupById once N*1000 ms or more of store time have
\* passed since the insert; at every earlier instant both return the record.
C10_ExpiresAfterTtl ==
    \A id \in Ids(manager) :
        LET key == buildKey(manager, id)
            h == history[key]
            found == get(store, key, currentTime).result
        IN  (/\ h.state = "live" /\ ~h.updated
             /\ Field(h.inserted, "ttlSeconds") # Null)
            => /\ found = Null <=> currentTime - h.at >= Field(h.inserted, "ttlSeconds").v * 1000
               /\ lookupOutcome(id, key, found) = Null <=> found = Null
               /\ found # Null =>
                      /\ found.value = serializeRecord(h.inserted)
                      /\ lookupOutcome(id, key, found).record = deserializeRecord(found.value)

\* a lookup that returned null at the very millisecond the TTL ran out, the
\* entry still being in the Map
C10_Witness ==
    /\ last.call.op = "lookupById" /\ last.value = Null
    /\ last.call.key \in DOMAIN last.before
    /\ last.before[last.call.key].expiresAt = Num(currentTime)

-----------------------------------------------------------------------------
\* C1: of the register calls that race for one payload on a store without a
\* record for it, exactly one returns stored:true; every other one returns
\* stored:false with a record equal in id, payloadHash, createdAt, metadata,
\* canonicalPayload and ttlSeconds to the one that was stored; none fails.
C1_ExactlyOneStores ==
    LET done == {c \in Clients : outcome[c] # Undefined /\ outcome[c] # Suspended}
        winners == {c \in done : outcome[c].t = "registration" /\ outcome[c].stored}
    IN  done # {} =>
            /\ \A c \in done : outcome[c].t = "registration"
            /\ Cardinality(winners) = 1
            /\ \A c \in done \ winners : \A w \in winners :
                   \A f \in ImmutableFields \cup {"ttlSeconds"} :
                       Field(outcome[c].record, f) = Field(outcome[w].record, f)

\* every client has returned, and the last one to return had supplied other
\* metadata than the record it was given
C1_Witness ==
    /\ \A c \in Clients : outcome[c].t = "registration"
    /\ \E c \in Clients : ~outcome[c].stored
    /\ IsDuplicateReturn
    /\ Field(last.call.record, "metadata") # Field(last.value.record, "metadata")

\* C2: a register call that finds, under its key, a record whose payloadHash is
\* not its own throws IdempotencyCollisionError and leaves the store as it was.
C2_CollisionDetected ==
    (/\ last.call.op = "register"
     /\ last.call.key # ""
     /\ Present(last.before, last.call.key, currentTime)
     /\ Field(StoredRecord(last.before, last.call.key), "payloadHash") # Str(last.call.id))
    => /\ store = last.before
       /\ last.phase = 1 => last.value = Suspended
       /\ last.phase = 2 =>
              last.value = Thrown("IdempotencyCollisionError",
                                  "Collision detected for key " \o last.call.key)

C2_Witness ==
    /\ last.call.op = "register" /\ last.phase = 2
    /\ IsThrown(last.value) /\ last.value.error = "IdempotencyCollisionError"
    /\ Field(StoredRecord(store, last.call.key), "payloadHash") = Str("different-hash")

-----------------------------------------------------------------------------
\* what lookupById(id) would return in this state
LookupNow(id) ==
    lookupOutcome(id, buildKey(manager, id),
                  get(store, buildKey(manager, id), currentTime).result)

\* C11: a record registered with ttlSeconds N > 0 and looked up with no time
\* elapsed has a ttlSeconds in (0, N]; after updateTtl(id, null) a lookup yields
\* ttlSeconds null.
C11_LookupTtl ==
    \A id \in Ids(manager) :
        LET key == buildKey(manager, id)
            h == history[key]
        IN  /\ (/\ h.state = "live" /\ ~h.updated
                /\ Field(h.inserted, "ttlSeconds") # Null
                /\ currentTime = h.at)
               => /\ LookupNow(id) # Null
                  /\ LookupNow(id).ttlSeconds.t = "number"
                  /\ LookupNow(id).ttlSeconds.v > 0
                  /\ LookupNow(id).ttlSeconds.v <= Field(h.inserted, "ttlSeconds").v
            /\ (/\ last.call.op = "updateTtl" /\ last.phase = 2
                /\ last.call.id = id
                /\ last.call.ttlSeconds = Null
                /\ last.value = Undefined)
               => /\ LookupNow(id) # Null
                  /\ LookupNow(id).ttlSeconds = Null

\* a lookup that reports ttlSeconds null for a record registered with a TTL of 2
\* and then updated with null
C11_Witness ==
    /\ last.call.op = "lookupById"
    /\ last.value # Null
    /\ last.value.ttlSeconds = Null
    /\ history[last.call.key].state = "live"
    /\ Field(history[last.call.key].inserted, "ttlSeconds") = Num(2)
    /\ history[last.call.key].updated

-----------------------------------------------------------------------------
\* how far ahead of the present a lookup is tried, in ms
FutureMs == {0, 1000, 1000000}

\* C12: once updateTtl has removed the TTL of a record (with null or 0), the
\* record does not expire: lookupById returns it however far the store clock
\* advances, until it is cleared or its TTL is updated again.
C12_NoExpiryAfterTtlRemoved ==
    \A id \in Ids(manager) :
        LET key == buildKey(manager, id)
            h == history[key]
        IN  (h.state = "live" /\ h.updated /\ h.ttl = Null)
            => /\ key \in DOMAIN store
               /\ store[key].expiresAt = Null
               /\ \A d \in FutureMs :
                      LET found == lookupOutcome(id, key, get(store, key, currentTime + d).result)
                      IN  /\ found # Null
                          /\ found.record = StoredRecord(store, key)
                          /\ Creation(found.record) = h.origin

\* a lookup that returns the record, registered at time 0 with the default TTL
\* of one second and updated since, 1500 ms later
C12_Witness ==
    /\ last.call.op = "lookupById"
    /\ last.value # Null
    /\ history[last.call.key].state = "live"
    /\ history[last.call.key].updated
    /\ history[last.call.key].ttl = Null
    /\ Field(history[last.call.key].inserted, "ttlSeconds") = Num(1)
    /\ Field(history[last.call.key].inserted, "createdAt") = Str(toISOString(0))
    /\ currentTime = 1500

-----------------------------------------------------------------------------
-----------------------------------------------------------------------------
\* the TTL a call asks for: its own positive integer, none for 0 or null, the
\* manager's default (null when it has none) for undefined
RequestedTtl(ttlSeconds) ==
    IF ttlSeconds = Undefined THEN manager.defaultTtlSeconds
    ELSE IF ttlSeconds = Null \/ ttlSeconds = Num(0) THEN Null
    ELSE ttlSeconds

\* the expiry of an entry written now with that TTL
ExpiryOf(ttl) == IF ttl = Null THEN Null ELSE Num(currentTime + ttl.v * 1000)

\* C14: the TTL that register and updateTtl give the record and the store is
\* the call's ttlSeconds when it is a positive integer, none when the call passes
\* 0 or null (whatever the default), the manager's default when the call passes
\* nothing, and none when there is no default either.
C14_TtlResolution ==
    /\ (/\ last.call.op = "register" /\ last.phase = 1
        /\ last.value.t = "registration")
       => /\ Field(last.value.record, "ttlSeconds") = RequestedTtl(last.call.options.ttlSeconds)
          /\ store[last.call.key].expiresAt
                 = ExpiryOf(RequestedTtl(last.call.options.ttlSeconds))
    /\ (/\ last.call.op = "updateTtl" /\ last.phase = 2
        /\ last.value = Undefined)
       => /\ Field(StoredRecord(store, last.call.key), "ttlSeconds")
                 = RequestedTtl(last.call.ttlSeconds)
          /\ store[last.call.key].expiresAt = ExpiryOf(RequestedTtl(last.call.ttlSeconds))

\* a register with ttlSeconds 0 on a manager whose default is one second
C14_Witness ==
    /\ last.call.op = "register" /\ last.phase = 1
    /\ last.value.t = "registration"
    /\ last.call.options.ttlSeconds = Num(0)
    /\ manager.defaultTtlSeconds = Num(1)
    /\ store[last.call.key].expiresAt = Null

\* C15: register and updateTtl called with a negative or non-integer ttlSeconds
\* fail with an IdempotencyError before any store operation; the store is
\* unchanged.
C15_InvalidTtlRejected ==
    LET ttlSeconds == IF last.call.op = "register" THEN last.call.options.ttlSeconds
                      ELSE last.call.ttlSeconds
    IN  (/\ last.call.op \in {"register", "updateTtl"}
         /\ last.phase = 1
         /\ ttlSeconds.t = "number"
         /\ (ttlSeconds.v < 0 \/ ttlSeconds.f # 0))
        => /\ last.value = Thrown("IdempotencyError",
                                  "TTL must be a positive integer, null, or undefined")
           /\ last.issued = <<>>
           /\ store = last.before
           /\ pc[last.client] = "idle"

\* updateTtl with ttlSeconds 1.5 on a record the store holds
C15_Witness ==
    /\ last.call.op = "updateTtl" /\ last.phase = 1
    /\ last.call.ttlSeconds = NumF(1, 5)
    /\ IsThrown(last.value)
    /\ Present(store, last.call.key, currentTime)

-----------------------------------------------------------------------------
-----------------------------------------------------------------------------
\* C17: lookupById and lookupByPayload only read: they issue get and nothing
\* else, every record the store holds stays as it is and no entry is created;
\* after the lookup of a payload that is not registered the key is still absent,
\* so that setIfAbsent for it inserts.
C17_LookupsReadOnly ==
    (/\ last.call.op \in {"lookupById", "lookupByPayload"}
     /\ last.call.key # "")
    => /\ last.issued = <<"get">>
       /\ DOMAIN store \subseteq DOMAIN last.before
       /\ \A k \in DOMAIN last.before :
              Present(last.before, k, currentTime)
                  => k \in DOMAIN store /\ store[k] = last.before[k]
       /\ ~Present(last.before, last.call.key, currentTime)
              => /\ last.value = Null
                 /\ last.call.key \notin DOMAIN store
                 /\ setIfAbsent(store, last.call.key, Str(""), Null, currentTime).result

\* lookupByPayload of a payload that was never registered
C17_Witness ==
    /\ last.call.op = "lookupByPayload"
    /\ last.value = Null
    /\ history[last.call.key].state = "never"

-----------------------------------------------------------------------------
\* C18: when updateTtl calls on one registered id overlap, each write puts the
\* ttlSeconds and the expiry of its own call into the store together, so that
\* after both the two come from the call that wrote last; the other fields of
\* the record stay as they were.
C18_LastWriterWins ==
    (/\ last.call.op = "updateTtl" /\ last.phase = 2
     /\ last.value = Undefined
     /\ Present(last.before, last.call.key, currentTime)
     /\ Creation(deserializeRecord(last.call.value))
            = Creation(StoredRecord(last.before, last.call.key)))
    => /\ Field(StoredRecord(store, last.call.key), "ttlSeconds") = last.call.newTtl
       /\ store[last.call.key].expiresAt = ExpiryOf(last.call.newTtl)
       /\ \A f \in ImmutableFields :
              Field(StoredRecord(store, last.call.key), f)
                  = Field(StoredRecord(last.before, last.call.key), f)

\* the second write of two overlapping updateTtl calls with different TTLs:
\* the record it read had been rewritten, with another ttlSeconds, by the time
\* it wrote
C18_Witness ==
    /\ last.call.op = "updateTtl" /\ last.phase = 2
    /\ last.value = Undefined
    /\ last.call.key \in DOMAIN last.before
    /\ last.before[last.call.key].value # last.call.value
    /\ Creation(deserializeRecord(last.call.value))
           = Creation(StoredRecord(last.before, last.call.key))
    /\ Field(StoredRecord(last.before, last.call.key), "ttlSeconds") # last.call.newTtl
    /\ Field(StoredRecord(last.before, last.call.key), "ttlSeconds")
           # Field(deserializeRecord(last.call.value), "ttlSeconds")

-----------------------------------------------------------------------------
\* the keys of a record
KeySet(obj) == {obj.members[i][1] : i \in 1..Len(obj.members)}

\* p and q are the same value but for the order of the keys of their records,
\* at every depth, and the order of the entries of their Maps
RECURSIVE SameUpToKeyOrder(_, _)
SameUpToKeyOrder(p, q) ==
    IF p.t # q.t THEN FALSE
    ELSE CASE p.t = "object" ->
                /\ Len(p.members) = Len(q.members)
                /\ KeySet(p) = KeySet(q)
                /\ \A k \in KeySet(p) : SameUpToKeyOrder(Field(p, k), Field(q, k))
           [] p.t = "array" ->
                /\ Len(p.items) = Len(q.items)
                /\ \A i \in 1..Len(p.items) : SameUpToKeyOrder(p.items[i], q.items[i])
           [] p.t = "map" ->
                /\ Len(p.entries) = Len(q.entries)
                /\ {p.entries[i] : i \in 1..Len(p.entries)}
                       = {q.entries[i] : i \in 1..Len(q.entries)}
           [] OTHER -> p = q

\* records and arrays, with no Map in them
IsPlain(p) == p.t \in {"object", "array"}

\* C19: two plain payloads that differ only in the order of their keys, at the
\* top level or nested, have the same canonical string and the same id; plain
\* payloads that differ otherwise, as by the order of the elements of an array,
\* have different canonical strings.
C19_KeyOrderIrrelevant ==
    \A c, d \in Clients :
        (/\ outcome[c].t = "generated" /\ outcome[d].t = "generated"
         /\ IsPlain(outcome[c].payload) /\ IsPlain(outcome[d].payload))
        => IF SameUpToKeyOrder(outcome[c].payload, outcome[d].payload)
           THEN /\ outcome[c].canonical = outcome[d].canonical
                /\ outcome[c].id = outcome[d].id
           ELSE outcome[c].canonical # outcome[d].canonical

\* C20: two Maps that hold the same entries, inserted in different orders, have
\* the same canonical string and the same id.
C20_MapOrderIrrelevant ==
    \A c, d \in Clients :
        (/\ outcome[c].t = "generated" /\ outcome[d].t = "generated"
         /\ outcome[c].payload.t = "map" /\ outcome[d].payload.t = "map"
         /\ SameUpToKeyOrder(outcome[c].payload, outcome[d].payload))
        => /\ outcome[c].canonical = outcome[d].canonical
           /\ outcome[c].id = outcome[d].id

-----------------------------------------------------------------------------
\* C21: two Sets that hold the same members, inserted in different orders, have
\* the same canonical string and the same id.
C21_SetOrderIrrelevant ==
    \A c, d \in Clients :
        (/\ outcome[c].t = "generated" /\ outcome[d].t = "generated"
         /\ outcome[c].payload.t = "set" /\ outcome[d].payload.t = "set"
         /\ Len(outcome[c].payload.members) = Len(outcome[d].payload.members)
         /\ {outcome[c].payload.members[i] : i \in 1..Len(outcome[c].payload.members)}
                = {outcome[d].payload.members[i] : i \in 1..Len(outcome[d].payload.members)})
        => /\ outcome[c].canonical = outcome[d].canonical
           /\ outcome[c].id = outcome[d].id

\* C21 witness: the two clients have canonicalized one Set in its two insertion
\* orders, and neither call threw
C21_Witness ==
    /\ outcome[1].t = "generated" /\ outcome[2].t = "generated"
    /\ outcome[1].payload = SetA /\ outcome[2].payload = SetB
    /\ ~IsThrown(outcome[1].canonical)
    /\ outcome[1].canonical = outcome[2].canonical

\* the payload kinds that normalize encodes as a tagged string or as an array
\* of tagged strings
IsTagged(p) == p.t \in {"bigint", "buffer", "date", "map", "set"}

\* C22: a bigint, a Buffer, a Date, a Map or a Set never has the canonical
\* string, nor the id, of a payload that is a string or an array.
C22_KindsKeptApart ==
    \A c, d \in Clients :
        (/\ outcome[c].t = "generated" /\ outcome[d].t = "generated"
         /\ ~IsThrown(outcome[c].canonical) /\ ~IsThrown(outcome[d].canonical)
         /\ IsTagged(outcome[c].payload)
         /\ outcome[d].payload.t \in {"string", "array"})
        => /\ outcome[c].canonical # outcome[d].canonical
           /\ outcome[c].id # outcome[d].id

\* a value of no supported kind, or one that holds such a value at any depth;
\* an entry of a record whose value is undefined counts as absent
RECURSIVE HoldsUnsupported(_)
HoldsUnsupported(p) ==
    CASE p.t \in {"undefined", "function", "symbol", "host"} -> TRUE
      [] p.t = "array" -> \E i \in 1..Len(p.items) : HoldsUnsupported(p.items[i])
      [] p.t = "set" -> \E i \in 1..Len(p.members) : HoldsUnsupported(p.members[i])
      [] p.t = "map" -> \E i \in 1..Len(p.entries) : HoldsUnsupported(p.entries[i][2])
      [] p.t = "object" ->
            \E i \in 1..Len(p.members) :
                p.members[i][2] # Undefined /\ HoldsUnsupported(p.members[i][2])
      [] OTHER -> FALSE

\* C23: canonicalize of a payload that is, or holds at any depth, a value of no
\* supported kind throws IdempotencySerializationError.
C23_UnsupportedRejected ==
    \A c \in Clients :
        (outcome[c].t = "generated" /\ HoldsUnsupported(outcome[c].payload))
        => /\ IsThrown(outcome[c].canonical)
           /\ outcome[c].canonical.error = "IdempotencySerializationError"

\* the record r without its entry k
WithoutKey(r, k) == Obj(SelectSeq(r.members, LAMBDA e : e[1] # k))

\* C24: a record with an entry that is undefined has the canonical string of
\* the record without the entry; a record with an entry that is null has a
\* canonical string other than that of the record without the entry.
C24_UndefinedDroppedNullKept ==
    \A c, d \in Clients :
        (/\ outcome[c].t = "generated" /\ outcome[d].t = "generated"
         /\ outcome[c].payload.t = "object" /\ outcome[d].payload.t = "object")
        => \A k \in KeySet(outcome[c].payload) :
              outcome[d].payload = WithoutKey(outcome[c].payload, k)
              => /\ Field(outcome[c].payload, k) = Undefined
                    => outcome[c].canonical = outcome[d].canonical
                 /\ Field(outcome[c].payload, k) = Null
                    => outcome[c].canonical # outcome[d].canonical

\* C24 witness: one client has canonicalized the record without the entry, the
\* other the record with the entry undefined, and the two strings are one
C24_Witness ==
    /\ outcome[1].t = "generated" /\ outcome[2].t = "generated"
    /\ outcome[1].payload = WithUndefined /\ outcome[2].payload = Without
    /\ outcome[1].canonical = Str("{\"a\":1}")
    /\ canonicalOf[WithNull] = Str("{\"a\":1,\"b\":null}")

\* the keys that normalize emits for a record or a Map, in the order it emits them
EmittedKeys(p) ==
    IF p.t = "map"
    THEN LET keyed == [i \in 1..Len(p.entries) |-> <<StringOf(p.entries[i][1]), Null>>]
             sorted == sortEntries(keyed)
         IN  [i \in 1..Len(sorted) |-> sorted[i][1]]
    ELSE LET members == normalize(p).members
         IN  [i \in 1..Len(members) |-> members[i][1]]

\* C25: the keys of a record, and of a Map, are emitted in code-unit order.
C25_CodeUnitOrder ==
    \A c \in Clients :
        (/\ outcome[c].t = "generated" /\ ~IsThrown(outcome[c].canonical)
         /\ outcome[c].payload.t \in {"object", "map"})
        => LET keys == EmittedKeys(outcome[c].payload)
           IN  \A i, j \in 1..Len(keys) : i < j => ~CodeUnitLess(keys[j], keys[i])

\* the fields of an IdempotencyRecord
RecordFields == ImmutableFields \cup {"ttlSeconds"}

\* C26: the record that register builds comes back from
\* deserializeRecord(serializeRecord(record)) with the same id, payloadHash,
\* createdAt, metadata, canonicalPayload and ttlSeconds; and the record that a
\* duplicate register returns has the fields of the record that the register
\* that inserted the key returned.
C26_RoundTrip ==
    /\ (last.call.op = "register" /\ "record" \in DOMAIN last.call)
       => LET back == deserializeRecord(serializeRecord(last.call.record))
          IN  /\ ~IsThrown(back)
              /\ \A f \in RecordFields : Field(back, f) = Field(last.call.record, f)
    /\ (IsDuplicateReturn /\ history[last.call.key].state = "live")
       => \A f \in RecordFields :
              Field(last.value.record, f) = Field(history[last.call.key].inserted, f)

\* C26 witness: a duplicate register got back a record that the first register
\* built with no canonicalPayload, no expiry and metadata with nested values,
\* and a register has built a record with no metadata
C26_Witness ==
    /\ IsDuplicateReturn /\ history[last.call.key].state = "live"
    /\ Field(last.value.record, "canonicalPayload") = Undefined
    /\ Field(last.value.record, "ttlSeconds") = Null
    /\ Field(last.value.record, "metadata") = MetadataNested
    /\ Field(last.call.record, "metadata") = Undefined

-----------------------------------------------------------------------------
\* C27, for the DynamoDB store: update on a key that get reports as absent
\* (no item, or an item that has logically expired) throws and leaves the key
\* absent; update on a key that get reports overwrites the value and the TTL,
\* which get reports as null when the TTL given is null.
C27_UpdateContract ==
    (last.call.op = "update" /\ last.phase = 1)
    => LET key == last.call.key
           found == dynamoGet(last.before, key, wallClock).result
           after == dynamoGet(store, key, wallClock).result
       IN  IF found = Null
           THEN IsThrown(last.value) /\ after = Null
           ELSE /\ last.value = Undefined
                /\ after = StoreValue(last.call.args.value, last.call.args.ttlSeconds)

\* C28: MemcachedIdempotencyStore.update on a key that the cache does not hold
\* (never set, deleted, or expired) throws and leaves the key absent.
C28_MemcachedUpdateMissing ==
    (/\ last.call.op = "update" /\ last.phase = 1
     /\ memcachedGet(last.before, last.call.key, wallClock).result = Null)
    => /\ IsThrown(last.value)
       /\ memcachedGet(store, last.call.key, wallClock).result = Null

\* C29: a get that found a logically expired record and went on to delete it
\* returns null, whether the delete succeeded or failed.
C29_CleanupNeverThrows ==
    (last.call.op = "get" /\ last.phase = 2) => last.value = Null

\* the storage key of the payload that the callers register
PayloadKey ==
    LET m == IdempotencyManager(TRUE, ManagerOptions)
    IN  buildKey(m, generateId(m, PayloadA))

\* the Postgres table holds a row for key whose expires_at has passed
RowExpired(key) ==
    key \in DOMAIN store /\ ~CURRENT_CONDITION(store[key], wallClock)

\* register has just returned stored:true for key
StoredNow(key) ==
    /\ last.call.op = "register" /\ last.call.key = key
    /\ last.value.t = "registration" /\ last.value.stored

\* the step just taken is not the caller's register of the payload of key
OtherActivity(key) ==
    last.client # Caller \/ last.call.op # "register" \/ last.call.key # key

\* C30: once the row of a payload has expired in the Postgres table, the
\* caller that keeps registering the payload, retrying after each error,
\* eventually gets stored:true, unless another client or another call acts
\* in between.
C30_RetryEventuallyStores ==
    RowExpired(PayloadKey) ~> (StoredNow(PayloadKey) \/ OtherActivity(PayloadKey))

\* C31: the clean-up delete of a get that read an expired item removes only an
\* expired item: an item that is live under the key when the delete runs (put
\* there after the get read the expired one) is still there after it.
C31_CleanupSparesLive ==
    (/\ last.call.op = "get" /\ last.phase = 2
     /\ dynamoGet(last.before, last.call.key, wallClock).result.t = "storeValue")
    => dynamoGet(store, last.call.key, wallClock).result
           = dynamoGet(last.before, last.call.key, wallClock).result

\* C32: setIfAbsent returns false only for a key whose value a get at the same
\* instant returns: a key whose TTL has elapsed counts as absent, whether or
\* not its item is still in the table.
C32_SetIfAbsentAgreesWithGet ==
    (last.call.op = "setIfAbsent" /\ last.value = Bool(FALSE))
    => dynamoGet(last.before, last.call.key, wallClock).result.t = "storeValue"

\* C33: a register returns stored:true for a key only if no register has
\* stored the key before, or the key has been removed since the last one that
\* did: by a clear that returned true, or by the expiry of its TTL (which this
\* very call may be the first to act on).
C33_StoredOncePerRemoval ==
    [][(/\ last' # last
        /\ last'.call.op = "register" /\ last'.phase = 1
        /\ last'.value.t = "registration" /\ last'.value.stored)
       => \/ history[last'.call.key].state \in {"never", "cleared", "expired"}
          \/ ~Present(store, last'.call.key, currentTime)]_vars

\* a register has stored a key that an earlier register had stored and whose
\* entry, expired, was still in the Map
C33_Witness ==
    /\ last.call.op = "register" /\ last.phase = 1
    /\ last.value.t = "registration" /\ last.value.stored
    /\ last.call.key \in DOMAIN last.before

\* C34: every value in the store parses to a record whose payloadHash is its
\* id and whose key is buildKey(id), and no register has ended in an
\* IdempotencyCollisionError.
C34_StoredRecordsMatchTheirKey ==
    /\ \A key \in DOMAIN store :
          LET record == deserializeRecord(store[key].value)
          IN  /\ ~IsThrown(record)
              /\ Field(record, "payloadHash") = Field(record, "id")
              /\ key = buildKey(manager, Field(record, "id").v)
    /\ ~(/\ last.call.op = "register" /\ IsThrown(last.value)
         /\ last.value.error = "IdempotencyCollisionError")

\* a register has compared its payloadHash with that of a record that
\* updateTtl had written back, and returned it
C34_Witness ==
    /\ last.call.op = "register" /\ last.phase = 2
    /\ last.value.t = "registration" /\ ~last.value.stored
    /\ last.call.key \in DOMAIN store
    /\ history[last.call.key].state = "live" /\ history[last.call.key].updated

\* C35: the record stored under a key has ttlSeconds null exactly when the
\* entry has no expiry, and otherwise carries the TTL that the last write of
\* the key gave the store; the insert of register and the update of updateTtl
\* leave the entry expiring that many seconds after the write.
C35_RecordTtlIsStoreTtl ==
    /\ \A key \in DOMAIN store :
          /\ Field(StoredRecord(store, key), "ttlSeconds") = Null
                <=> store[key].expiresAt = Null
          /\ history[key].state = "live"
                => Field(StoredRecord(store, key), "ttlSeconds") = history[key].ttl
    /\ (\/ /\ last.call.op = "register" /\ last.phase = 1
           /\ last.value.t = "registration"
        \/ /\ last.call.op = "updateTtl" /\ last.phase = 2
           /\ last.value = Undefined)
       => /\ last.call.key \in DOMAIN store
          /\ LET ttlSeconds == Field(StoredRecord(store, last.call.key), "ttlSeconds")
             IN  store[last.call.key].expiresAt =
                     IF ttlSeconds = Null THEN Null
                     ELSE Num(currentTime + ttlSeconds.v * MsPerSecond)

\* an updateTtl has given a TTL to a record that was stored without one
C35_Witness ==
    /\ last.call.op = "updateTtl" /\ last.phase = 2 /\ last.value = Undefined
    /\ Field(StoredRecord(last.before, last.call.key), "ttlSeconds") = Null
    /\ Field(StoredRecord(store, last.call.key), "ttlSeconds") = Num(1)
    /\ store[last.call.key].expiresAt # Null

\* C36: a register that finds an entry of its key whose expiry has passed
\* returns stored:true with the record it built, and that record is the one
\* stored afterwards.
C36_RegisterAfterExpiryStores ==
    (/\ last.call.op = "register" /\ last.phase = 1 /\ last.issued # <<>>
     /\ last.call.key \in DOMAIN last.before
     /\ last.before[last.call.key].expiresAt # Null
     /\ last.before[last.call.key].expiresAt.v <= currentTime)
    => /\ last.value = Registration(last.call.id, last.call.key, TRUE, last.call.record)
       /\ last.call.key \in DOMAIN store
       /\ store[last.call.key].value = serializeRecord(last.call.record)
       /\ store[last.call.key].expiresAt =
              toExpiryEpoch(Field(last.call.record, "ttlSeconds"), currentTime)

\* a register over an expired entry whose record differs from the expired one
\* in createdAt, metadata and ttlSeconds
C36_Witness ==
    /\ last.call.op = "register" /\ last.phase = 1
    /\ last.value.t = "registration" /\ last.value.stored
    /\ last.call.key \in DOMAIN last.before
    /\ last.before[last.call.key].expiresAt # Null
    /\ last.before[last.call.key].expiresAt.v <= currentTime
    /\ \A f \in {"createdAt", "metadata", "ttlSeconds"} :
          Field(last.value.record, f) # Field(StoredRecord(last.before, last.call.key), f)

\* C37: the redis.persist of an update leaves the expiry of the key as it is
\* when the key holds a value that another call wrote with a TTL: a value
\* written with a TTL keeps its expiry.
C37_PersistSparesOtherTtl ==
    (/\ last.call.op = "update" /\ last.phase = 2
     /\ redisHolds(last.before, last.call.key, wallClock)
     /\ last.before[last.call.key].expiresAt # Null)
    => store[last.call.key].expiresAt = last.before[last.call.key].expiresAt

\* C38: a clear returns true only if a get of the key at that instant, on the
\* store as the clear found it, returns a value.
C38_ClearAgreesWithGet ==
    (last.call.op = "clear" /\ last.value = Bool(TRUE))
    => get(last.before, last.call.key, currentTime).result # Null

\* C39: a lookup that returns a record whose entry has an expiry reports a
\* ttlSeconds of at least 1.
C39_ReportedTtlPositive ==
    (/\ last.call.op = "lookupById" /\ last.value.t = "lookup"
     /\ store[last.call.key].expiresAt # Null)
    => /\ last.value.ttlSeconds.t = "number"
       /\ last.value.ttlSeconds.v >= 1

\* what a register call that has returned or thrown has done: one setIfAbsent
\* and a result with stored:true, or one setIfAbsent and one get and one of
\* stored:false, the consistency error and the collision error
RegisterProtocol ==
    \/ /\ last.issued = <<"setIfAbsent">>
       /\ last.phase = 1
       /\ last.value.t = "registration" /\ last.value.stored
    \/ /\ last.issued = <<"setIfAbsent", "get">>
       /\ last.phase = 2
       /\ \/ last.value.t = "registration" /\ ~last.value.stored
          \/ last.value = Thrown("IdempotencyError",
                                 "Failed to persist idempotency record due to concurrent deletion")
          \/ IsThrown(last.value) /\ last.value.error = "IdempotencyCollisionError"

\* the payload of the call canonicalizes and its ttlSeconds is one that
\* resolveTtl accepts
RegisterInputValid ==
    /\ last.call.key # ""
    /\ ~IsThrown(resolveTtl(manager, last.call.options.ttlSeconds))

\* C40: a register call whose input is valid ends after exactly one
\* setIfAbsent and at most one get, with stored:true, stored:false, the
\* consistency error or the collision error; it issues no other store call.
C40_RegisterProtocolValidInput ==
    (last.call.op = "register" /\ last.value # Suspended /\ RegisterInputValid)
    => RegisterProtocol

\* C40 as stated, for every register call: a call with an invalid ttlSeconds
\* throws before any store call
C40_RegisterProtocolEveryCall ==
    (last.call.op = "register" /\ last.value # Suspended) => RegisterProtocol

\* a register has ended in the consistency error after one setIfAbsent and one get
C40_Witness ==
    /\ last.call.op = "register" /\ last.phase = 2
    /\ IsThrown(last.value) /\ last.value.error = "IdempotencyError"
    /\ last.issued = <<"setIfAbsent", "get">>
    /\ RegisterInputValid

====
